---- MODULE Spec2Model ----
(***************************************************************************)
(* Verification model of claude-usage-core.                                *)
(*                                                                         *)
(* Part 1 (SpecAuth): one call of authorize() of src/auth/index.ts, the    *)
(* OAuth PKCE flow over a transient local HTTP listener.  The promise      *)
(* executor has run: the server is bound, the timer is armed.  The         *)
(* environment delivers HTTP requests, lets the clock advance and answers  *)
(* the two outgoing POSTs (token exchange, long-lived upgrade).            *)
(***************************************************************************)
EXTENDS Integers, Sequences, FiniteSets, TLC

\* ------------------------------------------------------------------ bounds
\* Number of HTTP requests the listener receives during one authorize call.
MaxRequests == 2
\* options.timeoutMs of the modelled call: the clock advances one millisecond
\* per Tick.
TimeoutTicks == 1
\* The clock runs over 0..MaxTime: up to the deadline and one tick beyond.
MaxTime == TimeoutTicks + 1
\* expires_in of the token responses, in seconds.
ExpiresIn == 1

\* Milliseconds per minute (validateToken).
MsPerMinute == 60000
\* Milliseconds per second (expires_in * 1000).
MsPerSecond == 1000
\* A credential with fewer minutes left than this is refreshed proactively.
ProactiveRefreshMinutes == 5

\* ---------------------------------------------------------------- constants
NULL == "<null>"
\* const state = base64url(randomBytes(32))
State == "st-1"
Slots == 1..MaxRequests
\* Who settled the promise: the timer, or the handler of a slot.
TimerId == 0

\* What URL(req.url) and searchParams.get() yield for one request.
CallbackRequests ==
  [path : {"/callback"}, error : {NULL, "", "access_denied"},
   state : {State, "forged"}, code : {NULL, "", "abc"}]

OtherRequests ==
  {[path |-> "/other", error |-> NULL, state |-> NULL, code |-> NULL]}

Requests == CallbackRequests \cup OtherRequests

NoRequest == [path |-> NULL, error |-> NULL, state |-> NULL, code |-> NULL]

\* Answers of the token endpoint to the authorization_code POST.
ExchangeAnswers == {"ok", "http_error", "network_error"}
\* Answers of the create_api_key endpoint.
UpgradeAnswers == {"ok", "http_error", "network_error"}

\* interface TokenResponse, as returned by the token endpoint.
TokenResponse ==
  [access_token |-> "at-short", refresh_token |-> "rt-1", expires_in |-> ExpiresIn]

\* interface CreateApiKeyResponse (key, expires_at).
CreateApiKeyResponse ==
  [key |-> "at-long", expires_at |-> [tag |-> "date", ms |-> MaxTime + 100]]

VARIABLES
  requireLongLived, \* options.requireLongLived ?? false
  now,              \* Date.now(), in milliseconds
  settled,          \* let settled = false
  timer,            \* the setTimeout handle: "armed" | "cleared" | "fired"
  server,           \* the http.Server: "listening" | "closed"
  conns,            \* slots whose accepted socket is still open
  closeCalls,       \* number of server.close() calls made
  outcome,          \* the promise: pending | resolved | rejected
  settleCalls,      \* number of resolve()/reject() calls made
  req,              \* per slot: the request received, until its handler has read it
  hpc,              \* per slot: position of its 'request' handler
  branch,           \* per slot: the branch the handler took
  resp,             \* per slot: HTTP status the client received (0: none)
  locals,           \* per slot: data, accessToken, expiresAt of the handler
  result,           \* per slot: what the handler passed to resolve/reject
  answers,          \* per slot: the answers its two POSTs got, and when
  tokenPosts,       \* number of POSTs made to OAUTH_TOKEN_URL
  upgradePosts,     \* number of POSTs made to CREATE_API_KEY_URL
  file,             \* the store file: the AccountsData it decrypts to
  writes,           \* per account name: store writes made by its saveAccount calls
  call,             \* the client's usage call: "idle" | "all" | "one" | "returned" | "threw"
  proc,             \* per account name: its _fetchAccountUsage invocation
  last,             \* the last completed account-management call and its outcome
  drawn,            \* number of randomBytes(12) calls made by encrypt
  sealed,           \* the encrypt calls made: plaintext and envelope returned
  opened,           \* the last decrypt call: its input and what it returned or threw
  disk,             \* the store file on disk: missing, unreadable, or its text
  task,             \* per caller: its AccountStore call between load() and save()
  checked,          \* the last validateToken or refreshToken call and its result
  setup             \* one call of authorize() through `claude setup-token`

authVars ==
  <<requireLongLived, settled, timer, server, conns, closeCalls, outcome,
    settleCalls, req, hpc, branch, resp, locals, result, answers, tokenPosts,
    upgradePosts>>

fetchVars == <<file, writes, call, proc>>

cryptoVars == <<drawn, sealed, opened>>

diskVars == <<disk, task>>

tokenVars == <<checked>>

setupVars == <<setup>>

storeVars == <<last, cryptoVars, diskVars, tokenVars, setupVars>>

vars == <<now, authVars, fetchVars, storeVars>>

Pending == [kind |-> "pending"]
\* An expiresAt field: new Date(ms).toISOString(), a missing field, or text
\* that new Date() cannot parse.
IsoDate(ms) == [tag |-> "date", ms |-> ms]
NoExpiry == [tag |-> "absent", ms |-> 0]
BadDate == [tag |-> "unparseable", ms |-> 0]

\* let data, accessToken, expiresAt: not yet assigned
NoData == [undefined |-> TRUE]
NoLocals == [data |-> NoData, accessToken |-> NULL, expiresAt |-> NoExpiry]
NoResult == [kind |-> "none"]
NoAnswers == [exchange |-> "none", at |-> 0, upgrade |-> "none"]

\* new Error(msg) and the TypeError fetch() rejects with on a network failure.
Err(class, msg) == [class |-> class, msg |-> msg]

\* JSON.stringify({claudeAiOauth: {accessToken, refreshToken, expiresAt}}): a
\* credentials blob is kept as what JSON.parse reads back from it; json = FALSE
\* stands for text that JSON.parse rejects.
Credentials(accessToken, refreshToken, expiresAt) ==
  [json |-> TRUE, accessToken |-> accessToken, refreshToken |-> refreshToken,
   expiresAt |-> expiresAt]

\* The state when the promise executor of authorize() has run.
AuthStart ==
  /\ settled = FALSE
  /\ timer = "armed"
  /\ server = "listening"
  /\ conns = {}
  /\ closeCalls = 0
  /\ outcome = Pending
  /\ settleCalls = 0
  /\ req = [r \in Slots |-> NoRequest]
  /\ hpc = [r \in Slots |-> "idle"]
  /\ branch = [r \in Slots |-> "none"]
  /\ resp = [r \in Slots |-> 0]
  /\ locals = [r \in Slots |-> NoLocals]
  /\ result = [r \in Slots |-> NoResult]
  /\ answers = [r \in Slots |-> NoAnswers]
  /\ tokenPosts = 0
  /\ upgradePosts = 0

InitAuth ==
  /\ requireLongLived \in BOOLEAN
  /\ now = 0
  /\ AuthStart

\* ------------------------------------------------- effects, in code order
\* The part of the state the settlement statements act on.
World ==
  [settled |-> settled, timer |-> timer, server |-> server, conns |-> conns,
   closeCalls |-> closeCalls, outcome |-> outcome, settleCalls |-> settleCalls,
   resp |-> resp]

Commit(w) ==
  /\ settled' = w.settled
  /\ timer' = w.timer
  /\ server' = w.server
  /\ conns' = w.conns
  /\ closeCalls' = w.closeCalls
  /\ outcome' = w.outcome
  /\ settleCalls' = w.settleCalls
  /\ resp' = w.resp

\* settled = true
SetSettled(w) == [w EXCEPT !.settled = TRUE]

\* clearTimeout(timer): cancels a timer that has not fired yet
ClearTimeout(w) == [w EXCEPT !.timer = IF @ = "armed" THEN "cleared" ELSE @]

\* res.writeHead(status).end(body): reaches the client while its socket is open
WriteHeadEnd(w, r, status) ==
  [w EXCEPT !.resp[r] = IF r \in w.conns THEN status ELSE @]

\* server.close()
ServerClose(w) == [w EXCEPT !.server = "closed", !.closeCalls = @ + 1]

\* server.closeAllConnections()
CloseAllConnections(w) == [w EXCEPT !.conns = {}]

\* reject(err): settles the promise if it is still pending
Reject(w, by, err) ==
  [w EXCEPT !.outcome = IF @.kind = "pending"
                        THEN [kind |-> "rejected", by |-> by, error |-> err]
                        ELSE @,
            !.settleCalls = @ + 1]

\* resolve(value): settles the promise if it is still pending
Resolve(w, by, value) ==
  [w EXCEPT !.outcome = IF @.kind = "pending"
                        THEN [kind |-> "resolved", by |-> by, value |-> value]
                        ELSE @,
            !.settleCalls = @ + 1]

\* Mutant: the timer callback leaves the accepted sockets open.
OnTimeout_keepsSockets(w) ==
  IF ~w.settled
  THEN Reject(ServerClose(SetSettled(w)), TimerId,
              Err("Error", <<"OAuth authorization timed out">>))
  ELSE w

\* The setTimeout callback.
OnTimeout(w) ==
  IF ~w.settled
  THEN Reject(CloseAllConnections(ServerClose(SetSettled(w))), TimerId,
              Err("Error", <<"OAuth authorization timed out">>))
  ELSE w

\* if (error) { ... }
OnErrorParam(w, r, error) ==
  Reject(CloseAllConnections(ServerClose(
           WriteHeadEnd(ClearTimeout(SetSettled(w)), r, 400))), r,
         Err("Error", <<"OAuth error: ", error>>))

\* Mutant: the failure page is written after the sockets were torn down.
OnStateMismatch_closesFirst(w, r) ==
  Reject(WriteHeadEnd(CloseAllConnections(ServerClose(
           ClearTimeout(SetSettled(w)))), r, 400), r,
         Err("Error", <<"OAuth state mismatch">>))

\* if (returnedState !== state) { ... }
OnStateMismatch(w, r) ==
  Reject(CloseAllConnections(ServerClose(
           WriteHeadEnd(ClearTimeout(SetSettled(w)), r, 400))), r,
         Err("Error", <<"OAuth state mismatch">>))

\* if (!code) { ... }
OnMissingCode(w, r) ==
  Reject(CloseAllConnections(ServerClose(
           WriteHeadEnd(ClearTimeout(SetSettled(w)), r, 400))), r,
         Err("Error", <<"OAuth callback missing code">>))

\* The end of the try block: settled = true ... resolve(JSON.stringify(credentials))
SettleResolve(w, r, credentials) ==
  Resolve(CloseAllConnections(ServerClose(ClearTimeout(SetSettled(w)))), r,
          credentials)

\* The catch block: settled = true ... reject(err)
SettleReject(w, r, err) ==
  Reject(CloseAllConnections(ServerClose(ClearTimeout(SetSettled(w)))), r, err)

\* ------------------------------------------------ the handler's conditions
\* url.pathname !== '/callback'
NotCallbackPath(q) == q.path # "/callback"

\* if (error): null and the empty string are falsy
HasError(q) == q.error # NULL /\ q.error # ""

\* Mutant: the returned state is not compared.
StateMismatch_unchecked(q) == FALSE

\* if (returnedState !== state)
StateMismatch(q) == q.state # State

\* if (!code): null and the empty string are falsy
MissingCode(q) == q.code = NULL \/ q.code = ""

\* --------------------------------------------- the long-lived upgrade step
\* let accessToken = data.access_token;
\* let expiresAt = new Date(Date.now() + data.expires_in * 1000).toISOString()
AfterExchange(tokenData, t) ==
  [data |-> tokenData, accessToken |-> tokenData.access_token,
   expiresAt |-> IsoDate(t + tokenData.expires_in * MsPerSecond)]

\* createLongLivedToken: what it returns or throws for an answer
CreateLongLivedToken(a) ==
  CASE a = "ok" ->
         [threw |-> FALSE,
          value |-> [token |-> CreateApiKeyResponse.key,
                     expiresAt |-> CreateApiKeyResponse.expires_at]]
    [] a = "http_error" ->
         [threw |-> TRUE,
          error |-> Err("Error", <<"Failed to create long-lived token: HTTP ", "403">>)]
    [] OTHER ->
         [threw |-> TRUE, error |-> Err("TypeError", <<"fetch failed">>)]

\* Mutant: the failure of the upgrade is swallowed whatever requireLongLived says.
LongLivedStep_alwaysFallsBack(loc, a, required) ==
  LET ll == CreateLongLivedToken(a) IN
  IF ~ll.threw
  THEN [threw |-> FALSE,
        credentials |-> Credentials(ll.value.token, loc.data.refresh_token,
                                    ll.value.expiresAt)]
  ELSE [threw |-> FALSE,
        credentials |-> Credentials(loc.accessToken, loc.data.refresh_token,
                                    loc.expiresAt)]

\* try { longLived = await createLongLivedToken(...) } catch { if (requireLongLived) throw }
\* followed by the construction of credentials.
LongLivedStep(loc, a, required) ==
  LET ll == CreateLongLivedToken(a) IN
  IF ~ll.threw
  THEN [threw |-> FALSE,
        credentials |-> Credentials(ll.value.token, loc.data.refresh_token,
                                    ll.value.expiresAt)]
  ELSE IF required
  THEN [threw |-> TRUE,
        error |-> Err("Error",
                      <<"Failed to create long-lived token: ">> \o ll.error.msg)]
  ELSE [threw |-> FALSE,
        credentials |-> Credentials(loc.accessToken, loc.data.refresh_token,
                                    loc.expiresAt)]

\* ------------------------------------------------------------------ actions
\* Date.now() advances.
Tick ==
  /\ now < MaxTime
  /\ now' = now + 1
  /\ UNCHANGED <<requireLongLived, settled, timer, server, conns, closeCalls,
                 outcome, settleCalls, req, hpc, branch, resp, locals, result,
                 answers, tokenPosts, upgradePosts>>
  /\ UNCHANGED <<fetchVars, storeVars>>

\* The deadline has passed and the setTimeout callback runs.
TimerFire ==
  /\ timer = "armed"
  /\ now >= TimeoutTicks
  /\ Commit(OnTimeout([World EXCEPT !.timer = "fired"]))
  /\ UNCHANGED <<requireLongLived, now, req, hpc, branch, locals, result,
                 answers, tokenPosts, upgradePosts>>
  /\ UNCHANGED <<fetchVars, storeVars>>

\* The listening server accepts a connection carrying request q.
Arrive(r, q) ==
  /\ server = "listening"
  /\ hpc[r] = "idle"
  /\ IF r = 1 THEN TRUE ELSE hpc[r - 1] # "idle"
  /\ req' = [req EXCEPT ![r] = q]
  /\ hpc' = [hpc EXCEPT ![r] = "received"]
  /\ conns' = conns \cup {r}
  /\ UNCHANGED <<requireLongLived, now, settled, timer, server, closeCalls,
                 outcome, settleCalls, branch, resp, locals, result, answers,
                 tokenPosts, upgradePosts>>
  /\ UNCHANGED <<fetchVars, storeVars>>

\* The client (or the 1 ms keep-alive timeout) closes an answered socket.
SocketClose(r) ==
  /\ r \in conns
  /\ resp[r] # 0
  /\ conns' = conns \ {r}
  /\ UNCHANGED <<requireLongLived, now, settled, timer, server, closeCalls,
                 outcome, settleCalls, req, hpc, branch, resp, locals, result,
                 answers, tokenPosts, upgradePosts>>
  /\ UNCHANGED <<fetchVars, storeVars>>

\* The handler returns, having taken branch b without starting an exchange.
Returned(r, b) ==
  /\ hpc' = [hpc EXCEPT ![r] = "done"]
  /\ branch' = [branch EXCEPT ![r] = b]
  /\ req' = [req EXCEPT ![r] = NoRequest]
  /\ UNCHANGED <<requireLongLived, now, locals, answers, tokenPosts,
                 upgradePosts>>

\* if (settled) return;
Ignore(r) ==
  /\ hpc[r] = "received"
  /\ settled
  /\ Returned(r, "ignored")
  /\ UNCHANGED <<settled, timer, server, conns, closeCalls, outcome,
                 settleCalls, resp, result>>
  /\ UNCHANGED <<fetchVars, storeVars>>

\* Mutant: a request to another path ends the flow.
NotFound_settles(r) ==
  /\ hpc[r] = "received"
  /\ ~settled
  /\ NotCallbackPath(req[r])
  /\ Commit(SettleReject(WriteHeadEnd(World, r, 404), r,
                         Err("Error", <<"Not found">>)))
  /\ Returned(r, "notfound")
  /\ UNCHANGED result
  /\ UNCHANGED <<fetchVars, storeVars>>

\* if (url.pathname !== '/callback') { res.writeHead(404).end('Not found'); return; }
NotFound(r) ==
  /\ hpc[r] = "received"
  /\ ~settled
  /\ NotCallbackPath(req[r])
  /\ Commit(WriteHeadEnd(World, r, 404))
  /\ Returned(r, "notfound")
  /\ UNCHANGED result
  /\ UNCHANGED <<fetchVars, storeVars>>

\* if (error) { ...; reject(new Error(`OAuth error: ${error}`)); return; }
ErrorParam(r) ==
  /\ hpc[r] = "received"
  /\ ~settled
  /\ ~NotCallbackPath(req[r])
  /\ HasError(req[r])
  /\ LET w == OnErrorParam(World, r, req[r].error) IN
       /\ Commit(w)
       /\ result' = [result EXCEPT ![r] =
                       [kind |-> "rejected",
                        error |-> Err("Error", <<"OAuth error: ", req[r].error>>)]]
  /\ Returned(r, "error")
  /\ UNCHANGED <<fetchVars, storeVars>>

\* if (returnedState !== state) { ...; reject(new Error('OAuth state mismatch')); return; }
StateMismatched(r) ==
  /\ hpc[r] = "received"
  /\ ~settled
  /\ ~NotCallbackPath(req[r])
  /\ ~HasError(req[r])
  /\ StateMismatch(req[r])
  /\ Commit(OnStateMismatch(World, r))
  /\ result' = [result EXCEPT ![r] =
                  [kind |-> "rejected",
                   error |-> Err("Error", <<"OAuth state mismatch">>)]]
  /\ Returned(r, "mismatch")
  /\ UNCHANGED <<fetchVars, storeVars>>

\* if (!code) { ...; reject(new Error('OAuth callback missing code')); return; }
CodeMissing(r) ==
  /\ hpc[r] = "received"
  /\ ~settled
  /\ ~NotCallbackPath(req[r])
  /\ ~HasError(req[r])
  /\ ~StateMismatch(req[r])
  /\ MissingCode(req[r])
  /\ Commit(OnMissingCode(World, r))
  /\ result' = [result EXCEPT ![r] =
                  [kind |-> "rejected",
                   error |-> Err("Error", <<"OAuth callback missing code">>)]]
  /\ Returned(r, "nocode")
  /\ UNCHANGED <<fetchVars, storeVars>>

\* Mutant: the timer is cancelled as soon as a valid callback is accepted.
AcceptCallback_clearsTimer(r) ==
  /\ hpc[r] = "received"
  /\ ~settled
  /\ ~NotCallbackPath(req[r])
  /\ ~HasError(req[r])
  /\ ~StateMismatch(req[r])
  /\ ~MissingCode(req[r])
  /\ Commit(ClearTimeout(WriteHeadEnd(World, r, 200)))
  /\ tokenPosts' = tokenPosts + 1
  /\ hpc' = [hpc EXCEPT ![r] = "exchanging"]
  /\ branch' = [branch EXCEPT ![r] = "valid"]
  /\ req' = [req EXCEPT ![r] = NoRequest]
  /\ UNCHANGED <<requireLongLived, now, locals, result, answers, upgradePosts>>
  /\ UNCHANGED <<fetchVars, storeVars>>

\* The success page is served and the token POST is issued: await fetch(OAUTH_TOKEN_URL)
AcceptCallback(r) ==
  /\ hpc[r] = "received"
  /\ ~settled
  /\ ~NotCallbackPath(req[r])
  /\ ~HasError(req[r])
  /\ ~StateMismatch(req[r])
  /\ ~MissingCode(req[r])
  /\ Commit(WriteHeadEnd(World, r, 200))
  /\ tokenPosts' = tokenPosts + 1
  /\ hpc' = [hpc EXCEPT ![r] = "exchanging"]
  /\ branch' = [branch EXCEPT ![r] = "valid"]
  /\ req' = [req EXCEPT ![r] = NoRequest]
  /\ UNCHANGED <<requireLongLived, now, locals, result, answers, upgradePosts>>
  /\ UNCHANGED <<fetchVars, storeVars>>

\* The token endpoint answered with 2xx: the handler goes on to createLongLivedToken.
ExchangeOk(r) ==
  /\ hpc[r] = "exchanging"
  /\ locals' = [locals EXCEPT ![r] = AfterExchange(TokenResponse, now)]
  /\ answers' = [answers EXCEPT ![r].exchange = "ok", ![r].at = now]
  /\ upgradePosts' = upgradePosts + 1
  /\ hpc' = [hpc EXCEPT ![r] = "upgrading"]
  /\ UNCHANGED <<requireLongLived, now, settled, timer, server, conns,
                 closeCalls, outcome, settleCalls, req, branch, resp, result,
                 tokenPosts>>
  /\ UNCHANGED <<fetchVars, storeVars>>

\* The error the failed exchange throws into the catch block.
ExchangeError(a) ==
  IF a = "http_error"
  THEN Err("Error", <<"Token exchange failed: HTTP ", "400">>)
  ELSE Err("TypeError", <<"fetch failed">>)

\* The token POST failed (non-2xx, or fetch threw): the catch block rejects.
ExchangeFail(r, a) ==
  /\ hpc[r] = "exchanging"
  /\ Commit(SettleReject(World, r, ExchangeError(a)))
  /\ result' = [result EXCEPT ![r] = [kind |-> "rejected", error |-> ExchangeError(a)]]
  /\ hpc' = [hpc EXCEPT ![r] = "done"]
  /\ answers' = [answers EXCEPT ![r].exchange = a, ![r].at = now]
  /\ UNCHANGED <<requireLongLived, now, req, branch, locals, tokenPosts,
                 upgradePosts>>
  /\ UNCHANGED <<fetchVars, storeVars>>

\* createLongLivedToken returned or threw: the handler settles the promise.
UpgradeReturn(r, a) ==
  /\ hpc[r] = "upgrading"
  /\ LET s == LongLivedStep(locals[r], a, requireLongLived) IN
       IF s.threw
       THEN /\ Commit(SettleReject(World, r, s.error))
            /\ result' = [result EXCEPT ![r] = [kind |-> "rejected", error |-> s.error]]
       ELSE /\ Commit(SettleResolve(World, r, s.credentials))
            /\ result' = [result EXCEPT ![r] = [kind |-> "resolved", value |-> s.credentials]]
  /\ hpc' = [hpc EXCEPT ![r] = "done"]
  /\ answers' = [answers EXCEPT ![r].upgrade = a]
  /\ UNCHANGED <<requireLongLived, now, req, branch, locals, tokenPosts,
                 upgradePosts>>
  /\ UNCHANGED <<fetchVars, storeVars>>

NextAuth ==
  \/ Tick
  \/ TimerFire
  \/ \E r \in Slots, q \in Requests : Arrive(r, q)
  \/ \E r \in Slots : SocketClose(r)
  \/ \E r \in Slots : Ignore(r)
  \/ \E r \in Slots : NotFound(r)
  \/ \E r \in Slots : ErrorParam(r)
  \/ \E r \in Slots : StateMismatched(r)
  \/ \E r \in Slots : CodeMissing(r)
  \/ \E r \in Slots : AcceptCallback(r)
  \/ \E r \in Slots : ExchangeOk(r)
  \/ \E r \in Slots, a \in ExchangeAnswers \ {"ok"} : ExchangeFail(r, a)
  \/ \E r \in Slots, a \in UpgradeAnswers : UpgradeReturn(r, a)


(***************************************************************************)
(* Part 2 (SpecFetch): the client's usage calls over the encrypted store.  *)
(* getAllAccountsUsage / getAccountUsage load the store and start one      *)
(* _fetchAccountUsage per account; each runs between its awaits            *)
(* interleaved with the others.  The environment answers the refresh POST  *)
(* and the usage GET, and lets a store write fail.                         *)
(***************************************************************************)
Names == {"Work", "Home"}
NameOrder == <<"Work", "Home">>

\* Date.now() during the usage call.
FetchNow == 10 * MsPerMinute

\* Credential blobs found in the store when the call starts.
InitialExpiries ==
  {NoExpiry, BadDate} \cup
  {IsoDate(FetchNow + d) :
     d \in {0 - 1, 0, ProactiveRefreshMinutes * MsPerMinute - 1,
            ProactiveRefreshMinutes * MsPerMinute}}

Malformed ==
  [json |-> FALSE, accessToken |-> "", refreshToken |-> "", expiresAt |-> NoExpiry]

InitialOAuthBlobs ==
  {Credentials(a, r, e) : a \in {"at0", ""}, r \in {"rt0", ""}, e \in InitialExpiries}
    \cup {Malformed}

\* An admin API key, as the prefix startsWith() tests and the rest of the key.
AdminKey == <<"sk-ant-admin", "-1">>

\* JSON.stringify({ adminApiKey })
AdminCredentials(adminApiKey) == [json |-> TRUE, adminApiKey |-> adminApiKey]

AdminBlob == AdminCredentials(AdminKey)

\* interface SavedAccount
SavedAccount(name, credentials, email, accountType) ==
  [name |-> name, credentials |-> credentials, email |-> email,
   accountType |-> accountType]

InitialAccounts(name) ==
  {SavedAccount(name, b, NULL, t) : b \in InitialOAuthBlobs, t \in {NULL, "oauth"}}
    \cup {SavedAccount(name, b, NULL, "admin") : b \in {AdminBlob, Malformed}}

\* const EMPTY: AccountsData
EMPTY == [accounts |-> <<>>, activeAccountName |-> NULL]

\* ---------------------------------------------------------- TokenLifecycle
Num(n) == [tag |-> "num", n |-> n]
NaN == [tag |-> "nan", n |-> 0]
Null == [tag |-> "null", n |-> 0]

InvalidToken ==
  [isValid |-> FALSE, isExpired |-> FALSE, expiresAt |-> NoExpiry,
   minutesUntilExpiry |-> Null]

\* validateToken that counts a token as expired only after its expiry
validateToken_expiredAfter(blob, t) ==
  IF ~blob.json THEN InvalidToken
  ELSE IF blob.expiresAt.tag = "absent" THEN InvalidToken
  ELSE IF blob.expiresAt.tag = "unparseable"
  THEN [isValid |-> TRUE, isExpired |-> FALSE, expiresAt |-> BadDate,
        minutesUntilExpiry |-> NaN]
  ELSE LET isExpired == blob.expiresAt.ms < t IN
       [isValid |-> ~isExpired, isExpired |-> isExpired,
        expiresAt |-> blob.expiresAt,
        minutesUntilExpiry |-> Num((blob.expiresAt.ms - t) \div MsPerMinute)]

\* validateToken(credentialsJson) at time t.  An unparseable expiresAt gives an
\* Invalid Date: every comparison with it is false and the difference is NaN.
validateToken(blob, t) ==
  IF ~blob.json THEN InvalidToken
  ELSE IF blob.expiresAt.tag = "absent" THEN InvalidToken
  ELSE IF blob.expiresAt.tag = "unparseable"
  THEN [isValid |-> TRUE, isExpired |-> FALSE, expiresAt |-> BadDate,
        minutesUntilExpiry |-> NaN]
  ELSE LET isExpired == blob.expiresAt.ms <= t IN
       [isValid |-> ~isExpired, isExpired |-> isExpired,
        expiresAt |-> blob.expiresAt,
        minutesUntilExpiry |-> Num((blob.expiresAt.ms - t) \div MsPerMinute)]

\* NearExpiry that also takes a credential with exactly five minutes left
NearExpiry_fiveIncluded(v) ==
  /\ v.minutesUntilExpiry.tag # "null"
  /\ v.minutesUntilExpiry.tag = "num"
  /\ v.minutesUntilExpiry.n <= ProactiveRefreshMinutes

\* validation.minutesUntilExpiry !== null && validation.minutesUntilExpiry < 5
NearExpiry(v) ==
  /\ v.minutesUntilExpiry.tag # "null"
  /\ v.minutesUntilExpiry.tag = "num"
  /\ v.minutesUntilExpiry.n < ProactiveRefreshMinutes

\* refreshToken that POSTs whatever refresh token the blob has
RefreshRequest_alwaysPosts(blob) ==
  IF ~blob.json THEN [net |-> FALSE, sent |-> "", error |-> "Unexpected token"]
  ELSE [net |-> TRUE, sent |-> blob.refreshToken, error |-> ""]

\* refreshToken up to its fetch(): does it POST, and with which refresh token
RefreshRequest(blob) ==
  IF ~blob.json THEN [net |-> FALSE, sent |-> "", error |-> "Unexpected token"]
  ELSE IF blob.refreshToken = "" THEN [net |-> FALSE, sent |-> "", error |-> "No refresh token"]
  ELSE [net |-> TRUE, sent |-> blob.refreshToken, error |-> ""]

\* Answers of the token endpoint to the refresh_token POST.
RefreshAnswers == {"ok", "http_error", "network_error"}

\* The token endpoint's 2xx body for the refresh token it was sent.
RefreshResponse(sent) ==
  [access_token |-> "at/" \o sent, refresh_token |-> sent \o "+",
   expires_in |-> ExpiresIn]

NoBlob == [json |-> FALSE, accessToken |-> "", refreshToken |-> "", expiresAt |-> NoExpiry]

\* refreshToken from the answer on: the RefreshResult it resolves with
RefreshResult(rq, a, t) ==
  IF ~rq.net
  THEN [success |-> FALSE, newCredentials |-> NoBlob, error |-> rq.error]
  ELSE IF a = "ok"
  THEN LET d == RefreshResponse(rq.sent) IN
       [success |-> TRUE,
        newCredentials |-> Credentials(d.access_token, d.refresh_token,
                                       IsoDate(t + d.expires_in * MsPerSecond)),
        error |-> ""]
  ELSE IF a = "http_error"
  THEN [success |-> FALSE, newCredentials |-> NoBlob, error |-> "HTTP 400"]
  ELSE IF a = "bad_body"
  THEN [success |-> FALSE, newCredentials |-> NoBlob, error |-> "Unexpected token"]
  ELSE [success |-> FALSE, newCredentials |-> NoBlob, error |-> "fetch failed"]

\* ------------------------------------------------------------ AccountStore
\* data.accounts.findIndex(a => a.name === name): 0 when absent
FindIndex(accounts, name) ==
  IF \E i \in 1..Len(accounts) : accounts[i].name = name
  THEN CHOOSE i \in 1..Len(accounts) :
         /\ accounts[i].name = name
         /\ \A j \in 1..(i - 1) : accounts[j].name # name
  ELSE 0

\* saveAccount that removes the entry of that name and pushes the new account
StoreSaveAccount_movesToEnd(d, name, credentials) ==
  LET existing == FindIndex(d.accounts, name)
      account == SavedAccount(name, credentials, NULL, NULL)
      rest == IF existing > 0
              THEN [i \in 1..(Len(d.accounts) - 1) |->
                      IF i < existing THEN d.accounts[i] ELSE d.accounts[i + 1]]
              ELSE d.accounts
  IN [d EXCEPT !.accounts = Append(rest, account)]

\* saveAccount that pushes the account without looking for its name
StoreSaveAccount_alwaysPushes(d, name, credentials) ==
  [d EXCEPT !.accounts = Append(@, SavedAccount(name, credentials, NULL, NULL))]

\* saveAccount(name, credentials) between its load() and its save(): the
\* account { name, credentials, savedAt } replaces the entry of that name or is
\* pushed; email and accountType are not set on it.
StoreSaveAccount(d, name, credentials) ==
  LET existing == FindIndex(d.accounts, name)
      account == SavedAccount(name, credentials, NULL, NULL)
  IN
  IF existing > 0
  THEN [d EXCEPT !.accounts[existing] = account]
  ELSE [d EXCEPT !.accounts = Append(@, account)]

\* ------------------------------------------------- _fetchOAuthAccountUsage
IdleProc ==
  [pc |-> "idle", phase |-> "none", accountType |-> "oauth", email |-> NULL,
   credentialsJson |-> NoBlob, creds |-> NoBlob, refreshed |-> NoBlob,
   net |-> FALSE, snap |-> EMPTY,
   result |-> [kind |-> "none"], refreshSent |-> <<>>, usageSent |-> <<>>,
   usageAnswer |-> "none", refreshCalls |-> 0, refreshes |-> <<>>]

\* 'Token expired <em dash> refresh failed' (the dash is written in ASCII here)
TokenExpiredRefreshFailed == "Token expired -- refresh failed"

\* { ...EMPTY_OAUTH_USAGE, accountName: name, email, error }
ErrorResult(name, accountType, error) ==
  [kind |-> "result", accountName |-> name, accountType |-> accountType,
   usage |-> "empty", error |-> error]

\* { accountType, ...transformUsageData(usage), accountName: name, email }
UsageResult(name, accountType) ==
  [kind |-> "result", accountName |-> name, accountType |-> accountType,
   usage |-> "data", error |-> ""]

\* await refreshToken(blob): the call is made in phase ph
CallRefresh(st, blob, ph) ==
  LET rq == RefreshRequest(blob) IN
  [st EXCEPT !.pc = "refreshing", !.phase = ph, !.net = rq.net,
             !.refreshCalls = @ + 1,
             !.refreshSent = IF rq.net THEN Append(@, rq.sent) ELSE @]

\* JSON.parse(creds); token = accessToken; if (!token) return ...; await fetchUsage(token)
ProceedToUsage(st, name) ==
  IF ~st.creds.json
  THEN [st EXCEPT !.pc = "done",
                  !.result = ErrorResult(name, "oauth", "Unexpected token")]
  ELSE IF st.creds.accessToken = ""
  THEN [st EXCEPT !.pc = "done",
                  !.result = ErrorResult(name, "oauth", "No access token")]
  ELSE [st EXCEPT !.pc = "usage", !.usageSent = Append(@, st.creds.accessToken)]

\* _fetchAccountUsage(account) up to its first await
Begin(account) ==
  LET accountType == IF account.accountType = NULL THEN "oauth"
                     ELSE account.accountType
      st == [IdleProc EXCEPT !.accountType = accountType,
                             !.email = account.email,
                             !.credentialsJson = account.credentials,
                             !.creds = account.credentials]
      validation == validateToken(account.credentials, FetchNow)
  IN
  IF accountType = "admin"
  THEN IF ~account.credentials.json
       THEN [st EXCEPT !.pc = "done",
                       !.result = ErrorResult(account.name, "admin", "Unexpected token")]
       ELSE [st EXCEPT !.pc = "admin"]
  ELSE IF validation.isExpired THEN CallRefresh(st, st.creds, "expired")
  ELSE IF NearExpiry(validation) THEN CallRefresh(st, st.creds, "near")
  ELSE ProceedToUsage(st, account.name)

\* AfterRefresh with the expired branch treated like the near-expiry branch
AfterRefresh_continuesOnFailure(st, name, rr) ==
  IF rr.success
  THEN [st EXCEPT !.pc = "save_load",
                  !.refreshed = rr.newCredentials,
                  !.creds = IF st.phase = "retry" THEN @ ELSE rr.newCredentials]
  ELSE IF st.phase \in {"expired", "near"}
  THEN ProceedToUsage(st, name)
  ELSE [st EXCEPT !.pc = "done",
                  !.result = ErrorResult(name, "oauth", "Authentication failed")]

\* AfterRefresh with `creds = refreshed.newCredentials` left out
AfterRefresh_keepsOldCreds(st, name, rr) ==
  IF rr.success
  THEN [st EXCEPT !.pc = "save_load", !.refreshed = rr.newCredentials]
  ELSE IF st.phase = "expired"
  THEN [st EXCEPT !.pc = "done",
                  !.result = ErrorResult(name, "oauth", TokenExpiredRefreshFailed)]
  ELSE IF st.phase = "near"
  THEN ProceedToUsage(st, name)
  ELSE [st EXCEPT !.pc = "done",
                  !.result = ErrorResult(name, "oauth", "Authentication failed")]

\* The continuation after `await refreshToken(...)` resolved with rr
AfterRefresh(st, name, rr) ==
  IF rr.success
  THEN [st EXCEPT !.pc = "save_load",
                  !.refreshed = rr.newCredentials,
                  !.creds = IF st.phase = "retry" THEN @ ELSE rr.newCredentials]
  ELSE IF st.phase = "expired"
  THEN [st EXCEPT !.pc = "done",
                  !.result = ErrorResult(name, "oauth", TokenExpiredRefreshFailed)]
  ELSE IF st.phase = "near"
  THEN ProceedToUsage(st, name)
  ELSE [st EXCEPT !.pc = "done",
                  !.result = ErrorResult(name, "oauth", "Authentication failed")]

\* The continuation after `await this.store.saveAccount(...)` returned
AfterSave(st, name) ==
  IF st.phase = "retry"
  THEN IF st.refreshed.accessToken # ""
       THEN [st EXCEPT !.pc = "usage_retry",
                       !.usageSent = Append(@, st.refreshed.accessToken)]
       ELSE [st EXCEPT !.pc = "done",
                       !.result = ErrorResult(name, "oauth", "Authentication failed")]
  ELSE ProceedToUsage(st, name)

\* AfterSaveFailed with the StorageError of the first save left uncaught
AfterSaveFailed_rethrows(st, name) ==
  IF st.phase = "retry"
  THEN [st EXCEPT !.pc = "done",
                  !.result = ErrorResult(name, "oauth", "Authentication failed")]
  ELSE [st EXCEPT !.pc = "threw"]

\* The catch blocks, for a StorageError thrown by saveAccount
AfterSaveFailed(st, name) ==
  IF st.phase = "retry"
  THEN [st EXCEPT !.pc = "done",
                  !.result = ErrorResult(name, "oauth", "Authentication failed")]
  ELSE [st EXCEPT !.pc = "done",
                  !.result = ErrorResult(name, "oauth",
                                         "Storage error: Failed to save accounts")]

\* Answers of the usage endpoint.
UsageAnswers == {"ok", "401", "http_error", "network_error"}

\* AfterUsage that treats every failure of the usage call like a 401
AfterUsage_refreshesOnAnyFailure(st, name, a) ==
  IF a = "ok"
  THEN [st EXCEPT !.pc = "done", !.result = UsageResult(name, "oauth")]
  ELSE CallRefresh(st, st.credentialsJson, "retry")

\* The continuation after the first `await fetchUsage(token)`
AfterUsage(st, name, a) ==
  IF a = "ok"
  THEN [st EXCEPT !.pc = "done", !.result = UsageResult(name, "oauth")]
  ELSE IF a = "401"
  THEN CallRefresh(st, st.credentialsJson, "retry")
  ELSE IF a = "http_error"
  THEN [st EXCEPT !.pc = "done",
                  !.result = ErrorResult(name, "oauth", "API error: 500")]
  ELSE [st EXCEPT !.pc = "done",
                  !.result = ErrorResult(name, "oauth", "fetch failed")]

\* AfterUsageRetry that refreshes and retries again on another 401
AfterUsageRetry_retriesAgain(st, name, a) ==
  IF a = "ok"
  THEN [st EXCEPT !.pc = "done", !.result = UsageResult(name, "oauth")]
  ELSE IF a = "401"
  THEN CallRefresh(st, st.credentialsJson, "retry")
  ELSE [st EXCEPT !.pc = "done",
                  !.result = ErrorResult(name, "oauth", "Authentication failed")]

\* The continuation after the retried `await fetchUsage(token)`
AfterUsageRetry(st, name, a) ==
  IF a = "ok"
  THEN [st EXCEPT !.pc = "done", !.result = UsageResult(name, "oauth")]
  ELSE [st EXCEPT !.pc = "done",
                  !.result = ErrorResult(name, "oauth", "Authentication failed")]

\* Answers of the admin usage endpoint to fetchMessagesUsage.
AdminAnswers == {"ok", "401", "http_error", "network_error"}

\* _fetchAdminAccountUsage: the result for the admin endpoint's answer; what
\* fetchMessagesUsage throws is caught and its message becomes the error
AfterAdmin(st, name, a) ==
  IF a = "ok"
  THEN [st EXCEPT !.pc = "done", !.result = UsageResult(name, "admin")]
  ELSE IF a = "401"
  THEN [st EXCEPT !.pc = "done",
                  !.result = ErrorResult(name, "admin",
                                         "Authentication failed (HTTP 401)")]
  ELSE IF a = "http_error"
  THEN [st EXCEPT !.pc = "done",
                  !.result = ErrorResult(name, "admin", "Admin API error: 500")]
  ELSE [st EXCEPT !.pc = "done",
                  !.result = ErrorResult(name, "admin", "fetch failed")]

InitFetch ==
  /\ \E k \in 1..Len(NameOrder) :
       \E accts \in [1..k -> UNION {InitialAccounts(n) : n \in Names}] :
         /\ \A i \in 1..k : accts[i].name = NameOrder[i]
         /\ file = [accounts |-> accts, activeAccountName |-> NULL]
  /\ writes = [n \in Names |-> 0]
  /\ call = "idle"
  /\ proc = [n \in Names |-> IdleProc]

Stored(d) == {d.accounts[i].name : i \in 1..Len(d.accounts)}

AccountOf(d, n) == d.accounts[FindIndex(d.accounts, n)]

\* getAllAccountsUsage: load, then start the fetch of every account
GetAllAccountsUsage ==
  /\ call = "idle"
  /\ call' = "all"
  /\ proc' = [n \in Names |->
                IF n \in Stored(file) THEN Begin(AccountOf(file, n)) ELSE proc[n]]
  /\ UNCHANGED <<file, writes, now, authVars, storeVars>>

\* getAccountUsage(name): load, find, start the fetch of that account
GetAccountUsage(name) ==
  /\ call = "idle"
  /\ IF name \in Stored(file)
     THEN /\ call' = "one"
          /\ proc' = [proc EXCEPT ![name] = Begin(AccountOf(file, name))]
     ELSE /\ call' = "threw"
          /\ proc' = proc
  /\ UNCHANGED <<file, writes, now, authVars, storeVars>>

\* The blob the pending refreshToken call was given
RefreshArgument(st) ==
  IF st.phase = "retry" THEN st.credentialsJson ELSE st.creds

\* refreshToken resolves with the token endpoint's answer to its POST
RefreshReturn(n, a) ==
  /\ proc[n].pc = "refreshing"
  /\ proc[n].net
  /\ LET rr == RefreshResult(RefreshRequest(RefreshArgument(proc[n])), a, now)
     IN proc' = [proc EXCEPT ![n] =
                   AfterRefresh([proc[n] EXCEPT !.refreshes = Append(@, rr)], n, rr)]
  /\ UNCHANGED <<file, writes, call, now, authVars, storeVars>>

\* refreshToken resolves without having made a POST (no refresh token, bad JSON)
RefreshSkipped(n) ==
  /\ proc[n].pc = "refreshing"
  /\ ~proc[n].net
  /\ LET rr == RefreshResult(RefreshRequest(RefreshArgument(proc[n])), "none", now)
     IN proc' = [proc EXCEPT ![n] =
                   AfterRefresh([proc[n] EXCEPT !.refreshes = Append(@, rr)], n, rr)]
  /\ UNCHANGED <<file, writes, call, now, authVars, storeVars>>

\* store.saveAccount: const data = await this.load()
SaveLoad(n) ==
  /\ proc[n].pc = "save_load"
  /\ proc' = [proc EXCEPT ![n].pc = "save_write", ![n].snap = file]
  /\ UNCHANGED <<file, writes, call, now, authVars, storeVars>>

\* store.saveAccount: the upsert in memory and await this.save(data)
SaveWrite(n) ==
  /\ proc[n].pc = "save_write"
  /\ file' = StoreSaveAccount(proc[n].snap, n, proc[n].refreshed)
  /\ writes' = [writes EXCEPT ![n] = @ + 1]
  /\ proc' = [proc EXCEPT ![n] = AfterSave(proc[n], n)]
  /\ UNCHANGED <<call, now, authVars, storeVars>>

\* store.saveAccount: save() throws StorageError (mkdir or writeFile failed)
SaveFail(n) ==
  /\ proc[n].pc = "save_write"
  /\ proc' = [proc EXCEPT ![n] = AfterSaveFailed(proc[n], n)]
  /\ UNCHANGED <<file, writes, call, now, authVars, storeVars>>

\* fetchUsage resolves or throws
UsageReturn(n, a) ==
  /\ proc[n].pc = "usage"
  /\ proc' = [proc EXCEPT ![n] =
                AfterUsage([proc[n] EXCEPT !.usageAnswer = a], n, a)]
  /\ UNCHANGED <<file, writes, call, now, authVars, storeVars>>

\* UsageRetryReturn where a failed retry rejects the whole Promise.all
UsageRetryReturn_abortsCall(n, a) ==
  /\ proc[n].pc = "usage_retry"
  /\ proc' = [proc EXCEPT ![n] = AfterUsageRetry(proc[n], n, a)]
  /\ call' = IF a = "ok" THEN call ELSE "threw"
  /\ UNCHANGED <<file, writes, now, authVars, storeVars>>

\* the retried fetchUsage resolves or throws
UsageRetryReturn(n, a) ==
  /\ proc[n].pc = "usage_retry"
  /\ proc' = [proc EXCEPT ![n] = AfterUsageRetry(proc[n], n, a)]
  /\ UNCHANGED <<file, writes, call, now, authVars, storeVars>>

\* the admin usage endpoints answered
AdminReturn(n, a) ==
  /\ proc[n].pc = "admin"
  /\ proc' = [proc EXCEPT ![n] = AfterAdmin(proc[n], n, a)]
  /\ UNCHANGED <<file, writes, call, now, authVars, storeVars>>

\* Promise.all resolves: every started fetch has returned its result
Join ==
  /\ call \in {"all", "one"}
  /\ \A n \in Names : proc[n].pc \in {"idle", "done"}
  /\ call' = "returned"
  /\ UNCHANGED <<file, writes, proc, now, authVars, storeVars>>

NextFetch ==
  \/ GetAllAccountsUsage
  \/ \E n \in Names : GetAccountUsage(n)
  \/ \E n \in Names, a \in RefreshAnswers : RefreshReturn(n, a)
  \/ \E n \in Names : RefreshSkipped(n)
  \/ \E n \in Names : SaveLoad(n)
  \/ \E n \in Names : SaveWrite(n)
  \/ \E n \in Names : SaveFail(n)
  \/ \E n \in Names, a \in UsageAnswers : UsageReturn(n, a)
  \/ \E n \in Names, a \in UsageAnswers : UsageRetryReturn(n, a)
  \/ \E n \in Names, a \in AdminAnswers : AdminReturn(n, a)
  \/ Join

\* The authorize variables are not used by the usage calls.
AuthIdle == requireLongLived = FALSE /\ AuthStart

\* No account-management call has been made.
NoCall ==
  [op |-> "none", name |-> NULL, newName |-> NULL, credentials |-> NoBlob,
   email |-> NULL, returned |-> "none", wrote |-> FALSE, probe |-> "none",
   flow |-> "none", error |-> ""]

\* No encrypt or decrypt call has been made.
NoOpen == [called |-> FALSE, input |-> <<>>, threw |-> FALSE, plaintext |-> <<>>]

CryptoIdle == drawn = 0 /\ sealed = <<>> /\ opened = NoOpen

\* The two callers whose AccountStore calls may overlap.
Tasks == {1, 2}

\* No file text: readFile has nothing to return.
NoText == [kind |-> "none", json |-> FALSE, data |-> EMPTY]

\* The store file does not exist and its directory can be created.
Missing == [state |-> "missing", text |-> NoText, blocked |-> FALSE]

IdleTask ==
  [pc |-> "idle", op |-> "none", name |-> NULL, credentials |-> NoBlob,
   data |-> EMPTY, error |-> ""]

DiskIdle == disk = Missing /\ task = [t \in Tasks |-> IdleTask]

\* Neither validateToken nor refreshToken has been called on its own.
NoCheck ==
  [fn |-> "none", blob |-> NoBlob, validation |-> InvalidToken, net |-> FALSE,
   answer |-> "none",
   refresh |-> [success |-> FALSE, newCredentials |-> NoBlob, error |-> ""]]

\* The state when the promise executor of the setup-token authorize() has run:
\* the child is spawned, its listeners are attached, the timer is armed.
SetupStart ==
  [settled |-> FALSE, timer |-> "armed", child |-> "running", stdout |-> <<>>,
   kills |-> 0, errors |-> 0, outcome |-> Pending, settleCalls |-> 0]

\* The crypto, disk, token and setup-token variables are not used by the
\* client calls.
BoxIdle == CryptoIdle /\ DiskIdle /\ checked = NoCheck /\ setup = SetupStart

\* The usage-call variables are not used by authorize.
FetchIdle ==
  /\ file = EMPTY
  /\ writes = [n \in Names |-> 0]
  /\ call = "idle"
  /\ proc = [n \in Names |-> IdleProc]

FetchInit == now = FetchNow /\ AuthIdle /\ InitFetch /\ last = NoCall /\ BoxIdle

SpecFetch == FetchInit /\ [][NextFetch]_vars

AuthInit == InitAuth /\ FetchIdle /\ last = NoCall /\ BoxIdle

SpecAuth == AuthInit /\ [][NextAuth]_vars

\* The timer callback and the clock are scheduled by the runtime's event loop;
\* the network answers are not guaranteed.
FairSpecAuth == SpecAuth /\ WF_vars(Tick) /\ WF_vars(TimerFire)

\* ======================================================= claims, SpecAuth
InvalidBranches == {"error", "mismatch", "nocode"}

\* Slot r's handler leaves the 'request' event in this step, the flow unsettled.
Handles(r) == hpc[r] = "received" /\ hpc'[r] # "received" /\ ~settled

\* C1: the timer and the /callback handler are mutually exclusive terminal
\* triggers: once the operation is settled, no later step changes the outcome
\* or repeats a settlement action (resolve/reject, server.close()).
C1_LaterTriggerIsNoOp ==
  [][settled => /\ outcome' = outcome
                /\ settleCalls' = settleCalls
                /\ closeCalls' = closeCalls]_vars

\* C2: the listener is closed exactly once: server.close() is never called
\* twice, and the listener is not open once the operation has settled.
C2_ListenerClosedExactlyOnce ==
  /\ closeCalls <= 1
  /\ outcome.kind # "pending" => server = "closed" /\ closeCalls = 1

\* C3 (as claimed): the token POST is issued only by a /callback request with
\* no error parameter, the generated state and a non-empty code; after an
\* invalid callback no token POST is made.
C3_ExchangeOnlyWithoutErrorParam ==
  [][/\ tokenPosts' # tokenPosts =>
          \E r \in Slots :
            /\ Handles(r) /\ hpc'[r] = "exchanging"
            /\ req[r].path = "/callback"
            /\ req[r].error = NULL
            /\ req[r].state = State
            /\ req[r].code \notin {NULL, ""}
     /\ (\E r \in Slots : branch[r] \in InvalidBranches) =>
          tokenPosts' = tokenPosts]_vars

\* C3 (amended): the token POST is issued only by a /callback request whose
\* error parameter is absent or empty, whose state equals the generated state
\* and whose code is non-empty; after a callback rejected for a non-empty error,
\* a mismatched state or a missing code, no token POST is made.
C3_ExchangeOnlyAfterValidCallback ==
  [][/\ tokenPosts' # tokenPosts =>
          \E r \in Slots :
            /\ Handles(r) /\ hpc'[r] = "exchanging"
            /\ req[r].path = "/callback"
            /\ req[r].error \in {NULL, ""}
            /\ req[r].state = State
            /\ req[r].code \notin {NULL, ""}
     /\ (\E r \in Slots : branch[r] \in InvalidBranches) =>
          tokenPosts' = tokenPosts]_vars

C3_Witness ==
  \E r \in Slots : hpc[r] = "exchanging" /\ resp[r] = 200 /\ tokenPosts = 1

\* C4: every authorize call eventually settles, and once the timer has fired
\* (no callback, or an exchange that never returns) the operation is rejected.
C4_EventuallySettles ==
  /\ <>(outcome.kind # "pending")
  /\ [](timer = "fired" => outcome.kind = "rejected")

C4_Witness ==
  \E r \in Slots :
    hpc[r] = "exchanging" /\ timer = "fired" /\ outcome.kind = "rejected"

\* A request to /callback is waiting for, or was handled by, the handler.
CallbackSeen ==
  \E r \in Slots :
    \/ hpc[r] = "received" /\ req[r].path = "/callback"
    \/ branch[r] \in InvalidBranches \cup {"valid"}

TimedOutClean ==
  /\ outcome = [kind |-> "rejected", by |-> TimerId,
                error |-> Err("Error", <<"OAuth authorization timed out">>)]
  /\ server = "closed"
  /\ conns = {}

\* C5: if no /callback request arrives, authorize ends rejected with "timed
\* out", the listener closed and every accepted socket closed; requests to
\* other paths do not change this.
C5_TimeoutWithoutCallback ==
  /\ <>(CallbackSeen \/ TimedOutClean)
  /\ [](timer = "fired" /\ ~CallbackSeen => TimedOutClean)

C5_Witness ==
  /\ timer = "fired"
  /\ ~CallbackSeen
  /\ TimedOutClean
  /\ \E r \in Slots : branch[r] = "notfound" /\ resp[r] = 404

\* The handler of slot r has failed the flow with message msg: the 400 page
\* reached the client, the timer is cancelled, the listener and sockets closed.
FailedWith(r, msg) ==
  /\ outcome' = [kind |-> "rejected", by |-> r, error |-> Err("Error", msg)]
  /\ resp'[r] = 400
  /\ timer' = "cleared"
  /\ server' = "closed"
  /\ conns' = {}

\* After an invalid callback every later request is ignored and the outcome stays.
NoLaterCompletion ==
  (\E r \in Slots : branch[r] \in InvalidBranches) =>
     /\ outcome' = outcome
     /\ \A r \in Slots : branch'[r] # branch[r] => branch'[r] = "ignored"

\* C6 (as claimed): an invalid /callback fails the flow: an error parameter
\* rejects echoing the error code, else a state mismatch rejects with "state
\* mismatch", else a missing code with "missing code"; the 400 page is written
\* before the listener closes, the timer is cancelled, no later callback
\* completes the flow.
C6_ErrorParamAlwaysRejects ==
  [][/\ \A r \in Slots :
          Handles(r) /\ req[r].path = "/callback" =>
            /\ req[r].error # NULL =>
                 FailedWith(r, <<"OAuth error: ", req[r].error>>)
            /\ req[r].error = NULL /\ req[r].state # State =>
                 FailedWith(r, <<"OAuth state mismatch">>)
            /\ req[r].error = NULL /\ req[r].state = State
                 /\ req[r].code \in {NULL, ""} =>
                 FailedWith(r, <<"OAuth callback missing code">>)
     /\ NoLaterCompletion]_vars

\* C6 (amended): as claimed, with "an error parameter" read as "a non-empty
\* error parameter": an empty error parameter is treated as absent.
C6_InvalidCallbackRejects ==
  [][/\ \A r \in Slots :
          Handles(r) /\ req[r].path = "/callback" =>
            /\ req[r].error \notin {NULL, ""} =>
                 FailedWith(r, <<"OAuth error: ", req[r].error>>)
            /\ req[r].error \in {NULL, ""} /\ req[r].state # State =>
                 FailedWith(r, <<"OAuth state mismatch">>)
            /\ req[r].error \in {NULL, ""} /\ req[r].state = State
                 /\ req[r].code \in {NULL, ""} =>
                 FailedWith(r, <<"OAuth callback missing code">>)
     /\ NoLaterCompletion]_vars

C6_Witness ==
  \E r1, r2 \in Slots :
    /\ branch[r1] = "mismatch" /\ resp[r1] = 400
    /\ outcome.kind = "rejected" /\ outcome.by = r1
    /\ timer = "cleared"
    /\ branch[r2] = "ignored"

\* C7: a request to a path other than /callback is answered 404 and does not
\* settle the flow: the listener stays open, the timer armed, the promise
\* pending.
C7_NotFoundDoesNotSettle ==
  [][\A r \in Slots :
       Handles(r) /\ req[r].path # "/callback" =>
         /\ resp'[r] = 404
         /\ ~settled'
         /\ server' = "listening"
         /\ timer' = "armed"
         /\ outcome' = Pending
         /\ closeCalls' = closeCalls /\ settleCalls' = settleCalls]_vars

C7_Witness ==
  \E r \in Slots :
    /\ branch[r] = "notfound" /\ resp[r] = 404
    /\ ~settled /\ server = "listening" /\ timer = "armed"

\* C8: after a successful token exchange the handler settles by the upgrade
\* policy: upgrade ok -> long-lived token and its expiry with the exchange's
\* refresh token; upgrade failed and requireLongLived false -> short-lived
\* access token, the exchange's refresh token, expiry = time of the exchange
\* + expires_in; upgrade failed and requireLongLived true -> rejection.  This
\* is authorize's outcome whenever that handler is the one that settles.
C8_LongLivedPolicy ==
  \A r \in Slots :
    hpc[r] = "done" /\ answers[r].exchange = "ok" =>
      /\ answers[r].upgrade = "ok" =>
           result[r] = [kind |-> "resolved",
                        value |-> Credentials(CreateApiKeyResponse.key,
                                              TokenResponse.refresh_token,
                                              CreateApiKeyResponse.expires_at)]
      /\ answers[r].upgrade # "ok" /\ ~requireLongLived =>
           result[r] = [kind |-> "resolved",
                        value |-> Credentials(TokenResponse.access_token,
                                              TokenResponse.refresh_token,
                                              IsoDate(answers[r].at
                                                       + TokenResponse.expires_in * MsPerSecond))]
      /\ answers[r].upgrade # "ok" /\ requireLongLived =>
           result[r].kind = "rejected"
      /\ outcome.kind # "pending" /\ outcome.by = r =>
           /\ outcome.kind = result[r].kind
           /\ outcome.kind = "resolved" => outcome.value = result[r].value
           /\ outcome.kind = "rejected" => outcome.error = result[r].error

C8_Witness ==
  \E r \in Slots :
    /\ hpc[r] = "done" /\ answers[r].upgrade = "http_error" /\ ~requireLongLived
    /\ outcome.kind = "resolved" /\ outcome.by = r
    /\ outcome.value.accessToken = TokenResponse.access_token

\* C9: every failure of authorize is reported as an AuthenticationError
\* carrying a message, and no failed step is retried (one token POST per
\* accepted callback at most).
C9_FailuresAreAuthenticationErrors ==
  /\ outcome.kind = "rejected" => outcome.error.class = "AuthenticationError"
  /\ tokenPosts <= Cardinality({r \in Slots : branch[r] = "valid"})

\* C33: within one authorize call the token-endpoint exchange is started at
\* most once: a second /callback request arriving while the exchange started
\* by the first valid callback is in flight starts neither a second exchange
\* nor a second creation of a long-lived token.
C33_ExchangeStartedOnce == tokenPosts <= 1 /\ upgradePosts <= 1

\* ====================================================== claims, SpecFetch
\* The fetch of account n was started on a credential that validateToken
\* reports as expired.
StartedExpired(n) ==
  /\ proc[n].pc # "idle"
  /\ proc[n].accountType = "oauth"
  /\ validateToken(proc[n].credentialsJson, FetchNow).isExpired

\* The refresh made for the expired credential has resolved without success.
ExpiredRefreshFailed(n) ==
  /\ StartedExpired(n)
  /\ proc[n].pc # "refreshing"
  /\ proc[n].refreshed = NoBlob

\* C10: in the per-account usage fetch an expired credential is refreshed
\* before any usage call: while that refresh is pending no usage call has been
\* made, and a usage call is only ever made after the refresh succeeded.  When
\* the refresh did not succeed the fetch has returned the result whose error is
\* 'Token expired -- refresh failed', has made no usage call and has not written
\* the store.
C10_ExpiredRefreshOrFail ==
  \A n \in Names :
    StartedExpired(n) =>
      /\ proc[n].usageSent # <<>> => proc[n].refreshed # NoBlob
      /\ proc[n].pc = "refreshing" /\ proc[n].phase = "expired"
           => proc[n].usageSent = <<>> /\ writes[n] = 0
      /\ ExpiredRefreshFailed(n) =>
           /\ proc[n].pc = "done"
           /\ proc[n].result = ErrorResult(n, "oauth", TokenExpiredRefreshFailed)
           /\ proc[n].usageSent = <<>>
           /\ writes[n] = 0
           /\ AccountOf(file, n).credentials = proc[n].credentialsJson

\* The refresh POST of an expired credential was made and did not succeed, and
\* the call returned.
C10_Witness ==
  /\ call = "returned"
  /\ \E n \in Names :
       /\ ExpiredRefreshFailed(n)
       /\ proc[n].refreshSent # <<>>

\* Account n is the only one being fetched (getAccountUsage, or a store of one).
Alone(n) == \A m \in Names \ {n} : proc[m].pc = "idle"

\* The refresh made for the expired credential of n resolved with success.
ExpiredRefreshSucceeded(n) ==
  /\ StartedExpired(n)
  /\ proc[n].refreshes # <<>>
  /\ proc[n].refreshes[1].success

StartedNearExpiry(n) ==
  /\ proc[n].pc # "idle"
  /\ proc[n].accountType = "oauth"
  /\ ~validateToken(proc[n].credentialsJson, FetchNow).isExpired
  /\ NearExpiry(validateToken(proc[n].credentialsJson, FetchNow))
  /\ proc[n].credentialsJson.accessToken # ""

\* C12: for a credential that is not expired but has fewer than 5 minutes left
\* the fetch attempts one proactive refresh and continues whatever its outcome:
\* it never returns without having made the usage call; on success the
\* refreshed blob is stored and its access token used for the usage call; on
\* failure the usage call is made with the about-to-expire credential.
C12_ProactiveRefreshContinues ==
  \A n \in Names :
    StartedNearExpiry(n) =>
      /\ proc[n].refreshCalls >= 1
      /\ proc[n].usageSent = <<>> => proc[n].refreshCalls = 1
      /\ proc[n].pc = "done" => proc[n].usageSent # <<>>
      /\ proc[n].refreshes # <<>> /\ proc[n].usageSent # <<>> =>
           IF proc[n].refreshes[1].success
           THEN /\ writes[n] >= 1
                /\ proc[n].usageSent[1] =
                     proc[n].refreshes[1].newCredentials.accessToken
           ELSE proc[n].usageSent[1] = proc[n].credentialsJson.accessToken

\* Number of refreshToken calls the fetch of n makes before its usage call.
RefreshesBeforeUsage(n) ==
  LET validation == validateToken(proc[n].credentialsJson, FetchNow) IN
  IF validation.isExpired \/ NearExpiry(validation) THEN 1 ELSE 0

\* The first usage call of the fetch of n was answered 401.
Got401(n) == proc[n].phase = "retry"

AuthenticationFailed(n) == ErrorResult(n, "oauth", "Authentication failed")

\* C13: a 401 answer to the usage call triggers exactly one refresh and, when
\* that refresh succeeded, at most one retry of the usage call, made with the
\* refreshed access token; nothing further is retried, and the fetch returns
\* either the retried call's usage or, when the refresh failed or the retried
\* call failed in any way, the result with error "Authentication failed".
C13_OneRefreshOneRetry ==
  \A n \in Names :
    Got401(n) =>
      /\ proc[n].refreshCalls = RefreshesBeforeUsage(n) + 1
      /\ Len(proc[n].usageSent) \in {1, 2}
      /\ Len(proc[n].usageSent) = 2 =>
           /\ Len(proc[n].refreshes) = proc[n].refreshCalls
           /\ proc[n].refreshes[Len(proc[n].refreshes)].success
           /\ proc[n].usageSent[2] =
                proc[n].refreshes[Len(proc[n].refreshes)].newCredentials.accessToken
      /\ proc[n].pc = "done" =>
           /\ proc[n].result \in {UsageResult(n, "oauth"), AuthenticationFailed(n)}
           /\ proc[n].result = UsageResult(n, "oauth") => Len(proc[n].usageSent) = 2
           /\ ~proc[n].refreshes[Len(proc[n].refreshes)].success =>
                /\ proc[n].result = AuthenticationFailed(n)
                /\ Len(proc[n].usageSent) = 1

\* A 401 was followed by a successful refresh and a retry that failed again.
C13_Witness ==
  \E n \in Names :
    /\ Got401(n)
    /\ call = "returned"
    /\ Len(proc[n].usageSent) = 2
    /\ proc[n].usageSent[2] # proc[n].usageSent[1]
    /\ proc[n].result = AuthenticationFailed(n)

\* A per-account result: usage data without error, or empty usage with a
\* non-empty error string.
WellFormedResult(n, r) ==
  /\ r.kind = "result"
  /\ r.accountName = n
  /\ \/ r.usage = "data" /\ r.error = ""
     \/ r.usage = "empty" /\ r.error # ""

\* C14: the per-account usage fetch (OAuth and admin) never throws: it is never
\* left by an exception, every fetch that ends returns a result for its
\* account, and a result with usage data is only returned from an answered
\* usage call -- every failure of a refresh, a parse, a store write or a usage
\* call ends in a result carrying a non-empty error string.
C14_FetchNeverThrows ==
  /\ [](\A n \in Names : proc[n].pc # "threw")
  /\ [][\A n \in Names :
          proc'[n] # proc[n] /\ proc'[n].pc = "done" =>
            /\ WellFormedResult(n, proc'[n].result)
            /\ proc'[n].result.usage = "data" =>
                 proc[n].pc \in {"usage", "usage_retry", "admin"}]_vars

\* A store-write failure and an admin network failure were both turned into
\* results carrying an error.
C14_Witness ==
  /\ call = "returned"
  /\ \E n, m \in Names :
       /\ proc[n].result = ErrorResult(n, "oauth",
                                       "Storage error: Failed to save accounts")
       /\ proc[m].result = ErrorResult(m, "admin", "fetch failed")

\* Every stored account's fetch has been started, and no other.
AllStarted == \A n \in Names : n \in Stored(file) <=> proc[n].pc # "idle"

\* C15: getAllAccountsUsage starts the fetch of every stored account in one
\* step, before any of them is answered; once started the call is left only by
\* returning; a fetch that has produced its result keeps it, and a step of one
\* account's fetch (a failure included) leaves every other account's fetch as
\* it is; the call returns one well-formed result for each stored account.
C15_FanOutIsolated ==
  /\ [][call = "idle" /\ call' = "all" => AllStarted']_vars
  /\ [][call = "all" => call' \in {"all", "returned"}]_vars
  /\ [][\A n \in Names : proc[n].pc = "done" => proc'[n] = proc[n]]_vars
  /\ [][\A m \in Names :
          proc[m].pc # "idle" /\ proc'[m] # proc[m] =>
            \A n \in Names \ {m} : proc'[n] = proc[n]]_vars
  /\ [](call = "returned" /\ AllStarted =>
          \A n \in Stored(file) :
            proc[n].pc = "done" /\ WellFormedResult(n, proc[n].result))

\* Two stored accounts: one fetch succeeded, the other (always 401) failed.
C15_Witness ==
  /\ call = "returned"
  /\ AllStarted
  /\ \E n, m \in Stored(file) :
       /\ n # m
       /\ proc[n].result = UsageResult(n, "oauth")
       /\ Len(proc[m].usageSent) = 2
       /\ proc[m].result = AuthenticationFailed(m)

\* C34: when one getAllAccountsUsage call refreshes two or more accounts, then
\* after it returns the store holds the refreshed blob of every account whose
\* refresh succeeded and was written: no refreshed credential is lost or
\* reverted because the save of another account ran concurrently in the call.
C34_NoRefreshedCredentialLost ==
  call = "returned" =>
    \A n \in Names :
      writes[n] > 0 => AccountOf(file, n).credentials = proc[n].refreshed

\* The fetch of n refreshed before its usage call and the refreshed credential
\* was stored.
StoredBeforeUsage(n) ==
  /\ Len(proc[n].refreshes) >= 1 /\ proc[n].refreshes[1].success
  /\ writes[n] >= 1

\* C35: when the usage call returns 401 in a fetch that has already refreshed
\* and stored a new credential (expired or near-expiry path), the refresh
\* triggered by the 401 is made with the refresh token of that newly stored
\* credential, not with the one of the blob read at the start of the fetch.
C35_RetryUsesStoredCredential ==
  \A n \in Names :
    proc[n].phase = "retry" /\ proc[n].pc = "refreshing" /\ StoredBeforeUsage(n) =>
      /\ RefreshArgument(proc[n]) = proc[n].creds
      /\ proc[n].net =>
           proc[n].refreshSent[Len(proc[n].refreshSent)] = proc[n].creds.refreshToken

\* C36: a failure of the usage call that is not a 401 (another HTTP status or
\* a network error) triggers no refresh and no retry: the fetch is over, its
\* result's error is the failure's message, one usage call was made, and the
\* only refresh and store write are those made before the usage call.
C36_OtherFailureNoRetry ==
  \A n \in Names :
    proc[n].usageAnswer \in {"http_error", "network_error"} =>
      /\ proc[n].pc = "done"
      /\ proc[n].phase # "retry"
      /\ proc[n].result =
           ErrorResult(n, "oauth",
                       IF proc[n].usageAnswer = "http_error"
                       THEN "API error: 500" ELSE "fetch failed")
      /\ Len(proc[n].usageSent) = 1
      /\ proc[n].refreshCalls = RefreshesBeforeUsage(n)
      /\ writes[n] <= RefreshesBeforeUsage(n)

\* A fetch that refreshed an expired credential, stored it, and whose usage
\* call then failed on the network.
C36_Witness ==
  \E n \in Names :
    /\ call = "returned"
    /\ proc[n].usageAnswer = "network_error"
    /\ proc[n].phase = "expired" /\ writes[n] = 1
    /\ proc[n].result = ErrorResult(n, "oauth", "fetch failed")

\* The blob the fetch of n read has at least five minutes left.
FiveMinutesLeft(n) ==
  LET validation == validateToken(proc[n].credentialsJson, FetchNow) IN
  /\ validation.isValid
  /\ validation.minutesUntilExpiry.tag = "num"
  /\ validation.minutesUntilExpiry.n >= ProactiveRefreshMinutes

\* C37: for a credential with at least 5 minutes left whose usage call
\* succeeds, the per-account fetch makes exactly one usage call, no refresh
\* call and no write to the store: the account's entry is the blob that was
\* read, and when no other fetch ran the store was not written at all.
C37_ValidFetchIsReadOnly ==
  \A n \in Names :
    proc[n].accountType = "oauth" /\ FiveMinutesLeft(n)
      /\ proc[n].usageAnswer = "ok" =>
      /\ proc[n].pc = "done"
      /\ proc[n].result = UsageResult(n, "oauth")
      /\ proc[n].usageSent = <<proc[n].credentialsJson.accessToken>>
      /\ proc[n].refreshCalls = 0 /\ proc[n].refreshSent = <<>>
      /\ writes[n] = 0
      /\ AccountOf(file, n).credentials = proc[n].credentialsJson
      /\ Alone(n) => writes = [m \in Names |-> 0]

\* A credential with exactly five minutes left was fetched while the other
\* account's fetch refreshed and wrote the store.
C37_Witness ==
  \E n \in Names :
    /\ call = "returned"
    /\ proc[n].usageAnswer = "ok"
    /\ proc[n].credentialsJson.expiresAt
         = IsoDate(FetchNow + ProactiveRefreshMinutes * MsPerMinute)
    /\ \E m \in Names \ {n} : writes[m] = 1

(***************************************************************************)
(* Part 3 (SpecStore): the client's account-management calls, made one     *)
(* after the other on one store file: saveAccount, saveAdminAccount,       *)
(* switchAccount, deleteAccount, renameAccount.  The environment answers   *)
(* the profile and admin probes and lets a store write fail.               *)
(***************************************************************************)
\* Account names the calls are made with: they differ only in case.
StoreNames == {"Work", "work"}

\* Credential blobs handed to saveAccount: two with an access token, one without.
StoreBlobs ==
  {Credentials("at1", "rt1", NoExpiry), Credentials("at2", "rt2", NoExpiry),
   Credentials("", "rt3", NoExpiry)}

\* profile.account.email values the profile endpoint answers with.
Emails == {"a@example.com", "b@example.com"}

\* Keys handed to saveAdminAccount: one with the admin prefix, one without.
AdminKeys == {AdminKey, <<"sk-ant-api", "-2">>}

\* adminApiKey.startsWith('sk-ant-admin')
HasAdminPrefix(key) == key[1] = "sk-ant-admin"

\* accounts.splice(index, 1)
Splice(accounts, index) ==
  [i \in 1..(Len(accounts) - 1) |->
     IF i < index THEN accounts[i] ELSE accounts[i + 1]]

\* What the extra arguments (email, accountType) of a saveAccount call become:
\* the method declares (name, credentials) and builds the account from these.
StoreSaveAccountCall(d, name, credentials, email, accountType) ==
  StoreSaveAccount(d, name, credentials)

\* deleteAccount that leaves activeAccountName as it is
StoreDeleteAccount_keepsActive(d, name) ==
  LET index == FindIndex(d.accounts, name) IN
  IF index = 0
  THEN [returned |-> FALSE, saves |-> FALSE, data |-> d]
  ELSE [returned |-> TRUE, saves |-> TRUE,
        data |-> [d EXCEPT !.accounts = Splice(d.accounts, index)]]

\* deleteAccount without the test of the index: splice(-1, 1) removes the last
\* entry, and the document is saved
StoreDeleteAccount_noIndexCheck(d, name) ==
  LET index == FindIndex(d.accounts, name)
      at == IF index = 0 THEN Len(d.accounts) ELSE index
  IN [returned |-> TRUE, saves |-> TRUE,
      data |-> [accounts |-> IF at = 0 THEN d.accounts
                             ELSE Splice(d.accounts, at),
                activeAccountName |->
                  IF d.activeAccountName = name THEN NULL
                  ELSE d.activeAccountName]]

\* AccountStore.deleteAccount between its load() and its save()
StoreDeleteAccount(d, name) ==
  LET index == FindIndex(d.accounts, name) IN
  IF index = 0
  THEN [returned |-> FALSE, saves |-> FALSE, data |-> d]
  ELSE [returned |-> TRUE, saves |-> TRUE,
        data |-> [accounts |-> Splice(d.accounts, index),
                  activeAccountName |->
                    IF d.activeAccountName = name THEN NULL
                    ELSE d.activeAccountName]]

\* AccountStore.setActiveAccount between its load() and its save()
StoreSetActiveAccount(d, name) == [d EXCEPT !.activeAccountName = name]

\* AccountStore.renameAccount between its load() and its save(): false when
\* oldName is absent, failure when newName is in use, else the entry renamed in
\* place.  Whether activeAccountName follows the renamed account is not stated:
\* `follows` chooses.
StoreRenameAccount(d, oldName, newName, follows) ==
  LET index == FindIndex(d.accounts, oldName) IN
  IF index = 0
  THEN [returned |-> "false", threw |-> FALSE, data |-> d]
  ELSE IF FindIndex(d.accounts, newName) > 0
  THEN [returned |-> "none", threw |-> TRUE, data |-> d]
  ELSE [returned |-> "true", threw |-> FALSE,
        data |-> [accounts |-> [d.accounts EXCEPT ![index].name = newName],
                  activeAccountName |->
                    IF follows /\ d.activeAccountName = oldName THEN newName
                    ELSE d.activeAccountName]]

\* A completed call: what it was given, what the store returned, whether the
\* file was written, and what the call threw.
Call(op, name, newName, credentials, email, returned, error) ==
  [op |-> op, name |-> name, newName |-> newName, credentials |-> credentials,
   email |-> email, returned |-> returned, wrote |-> FALSE, probe |-> "none",
   flow |-> "none", error |-> error]

\* await this.save(data): the file is overwritten, or StorageError is thrown
\* and the file stays as it was.
Save(data, ok, done) ==
  IF ok
  THEN /\ file' = data
       /\ last' = [done EXCEPT !.wrote = TRUE]
  ELSE /\ file' = file
       /\ last' = [done EXCEPT !.returned = "none", !.error = "StorageError"]

StoreInit ==
  /\ now = 0
  /\ AuthIdle
  /\ FetchIdle
  /\ last = NoCall
  /\ BoxIdle

\* saveAccount called without credentials while the system has none to read.
Unavailable == [unavailable |-> TRUE]

\* JSON.parse(creds).claudeAiOauth?.accessToken is truthy
HasToken(credentials) == credentials.json /\ credentials.accessToken # ""

\* client.saveAccount(name, credentials?): the profile lookup is best effort
\* (email is NULL when it failed or was not made), then the store upsert
SaveAccountCall(name, credentials, email, ok) ==
  /\ IF credentials = Unavailable
     THEN /\ email = NULL /\ ok
          /\ last' = Call("saveAccount", name, NULL, NoBlob, NULL, "none", "Error")
          /\ file' = file
     ELSE /\ ~HasToken(credentials) => email = NULL
          /\ Save(StoreSaveAccountCall(file, name, credentials, email, "oauth"), ok,
                  Call("saveAccount", name, NULL, credentials, email, "void", ""))
  /\ UNCHANGED <<writes, call, proc, now, authVars, cryptoVars, diskVars,
                 tokenVars, setupVars>>

\* saveAdminAccount that stores the account first and probes the key afterwards
SaveAdminAccountCall_savesBeforeProbe(name, key, probeOk, ok) ==
  /\ IF ~HasAdminPrefix(key)
     THEN /\ probeOk /\ ok
          /\ last' = Call("saveAdminAccount", name, NULL, AdminCredentials(key),
                          NULL, "none", "Error")
          /\ file' = file
     ELSE Save(StoreSaveAccountCall(file, name, AdminCredentials(key), NULL, "admin"),
               ok,
               [Call("saveAdminAccount", name, NULL, AdminCredentials(key), NULL,
                     IF probeOk THEN "void" ELSE "none",
                     IF probeOk THEN "" ELSE "ProbeError")
                  EXCEPT !.probe = IF probeOk THEN "ok" ELSE "failed"])
  /\ UNCHANGED <<writes, call, proc, now, authVars, cryptoVars, diskVars,
                 tokenVars, setupVars>>

\* client.saveAdminAccount(name, adminApiKey): prefix test, then the probe
\* fetchMessagesUsage(adminApiKey), then the store upsert
SaveAdminAccountCall(name, key, probeOk, ok) ==
  /\ IF ~HasAdminPrefix(key)
     THEN /\ probeOk /\ ok
          /\ last' = Call("saveAdminAccount", name, NULL, AdminCredentials(key),
                          NULL, "none", "Error")
          /\ file' = file
     ELSE IF ~probeOk
     THEN /\ ok
          /\ last' = [Call("saveAdminAccount", name, NULL, AdminCredentials(key),
                           NULL, "none", "ProbeError") EXCEPT !.probe = "failed"]
          /\ file' = file
     ELSE Save(StoreSaveAccountCall(file, name, AdminCredentials(key), NULL, "admin"),
               ok,
               [Call("saveAdminAccount", name, NULL, AdminCredentials(key), NULL,
                     "void", "") EXCEPT !.probe = "ok"])
  /\ UNCHANGED <<writes, call, proc, now, authVars, cryptoVars, diskVars,
                 tokenVars, setupVars>>

\* client.switchAccount(name)
SwitchAccountCall(name, ok) ==
  /\ IF name \notin Stored(file)
     THEN /\ ok
          /\ last' = Call("switchAccount", name, NULL, NoBlob, NULL, "none",
                          "AccountNotFoundError")
          /\ file' = file
     ELSE Save(StoreSetActiveAccount(file, name), ok,
               Call("switchAccount", name, NULL, NoBlob, NULL, "void", ""))
  /\ UNCHANGED <<writes, call, proc, now, authVars, cryptoVars, diskVars,
                 tokenVars, setupVars>>

\* client.deleteAccount(name)
DeleteAccountCall(name, ok) ==
  /\ LET r == StoreDeleteAccount(file, name) IN
     IF ~r.saves
     THEN /\ ok
          /\ last' = Call("deleteAccount", name, NULL, NoBlob, NULL,
                          IF r.returned THEN "true" ELSE "false",
                          IF r.returned THEN "" ELSE "AccountNotFoundError")
          /\ file' = r.data
     ELSE Save(r.data, ok,
               Call("deleteAccount", name, NULL, NoBlob, NULL, "true", ""))
  /\ UNCHANGED <<writes, call, proc, now, authVars, cryptoVars, diskVars,
                 tokenVars, setupVars>>

\* renameAccount that goes on when the store returned false
RenameAccountCall_ignoresResult(oldName, newName, follows, ok) ==
  /\ LET r == StoreRenameAccount(file, oldName, newName, follows) IN
     IF r.threw
     THEN /\ ok /\ follows
          /\ last' = Call("renameAccount", oldName, newName, NoBlob, NULL, "none",
                          "NameInUse")
          /\ file' = file
     ELSE IF r.returned = "false"
     THEN /\ ok /\ follows
          /\ last' = Call("renameAccount", oldName, newName, NoBlob, NULL, "false",
                          "")
          /\ file' = file
     ELSE Save(r.data, ok,
               Call("renameAccount", oldName, newName, NoBlob, NULL, "true", ""))
  /\ UNCHANGED <<writes, call, proc, now, authVars, cryptoVars, diskVars,
                 tokenVars, setupVars>>

\* client.renameAccount(oldName, newName)
RenameAccountCall(oldName, newName, follows, ok) ==
  /\ LET r == StoreRenameAccount(file, oldName, newName, follows) IN
     IF r.threw
     THEN /\ ok /\ follows
          /\ last' = Call("renameAccount", oldName, newName, NoBlob, NULL, "none",
                          "NameInUse")
          /\ file' = file
     ELSE IF r.returned = "false"
     THEN /\ ok /\ follows
          /\ last' = Call("renameAccount", oldName, newName, NoBlob, NULL, "false",
                          "AccountNotFoundError")
          /\ file' = file
     ELSE Save(r.data, ok,
               Call("renameAccount", oldName, newName, NoBlob, NULL, "true", ""))
  /\ UNCHANGED <<writes, call, proc, now, authVars, cryptoVars, diskVars,
                 tokenVars, setupVars>>

\* What the promise of authorize(options) settles to: a rejection before the
\* long-lived upgrade (deadline, invalid callback, failed exchange), or what
\* the upgrade step makes of the exchanged token.
AuthorizeAnswers == {"rejected"} \cup UpgradeAnswers

Authorize(a, required, t) ==
  IF a = "rejected"
  THEN [threw |-> TRUE, error |-> Err("Error", <<"authorize rejected">>)]
  ELSE LongLivedStep(AfterExchange(TokenResponse, t), a, required)

\* options?.requireLongLived ?? false, for the options refreshToken passes on:
\* this.authenticate(name) passes none.
RefreshRequiresLongLived == FALSE

\* client.refreshToken(name): the account is looked up, an admin-typed one is
\* refused, then authenticate(name) awaits authorize() and saves what it
\* resolved to through the client's saveAccount (profile lookup, store upsert).
RefreshAccountCall(name, a, email, ok) ==
  /\ LET index == FindIndex(file.accounts, name)
         done(returned, error) ==
           Call("refreshToken", name, NULL, NoBlob, NULL, returned, error)
     IN
     IF index = 0
     THEN /\ a = "rejected" /\ email = NULL /\ ok
          /\ last' = done("none", "AccountNotFoundError")
          /\ file' = file
     ELSE IF file.accounts[index].accountType = "admin"
     THEN /\ a = "rejected" /\ email = NULL /\ ok
          /\ last' = done("none", "Cannot refresh token for an admin account")
          /\ file' = file
     ELSE LET r == Authorize(a, RefreshRequiresLongLived, now) IN
          IF r.threw
          THEN /\ email = NULL /\ ok
               /\ last' = [done("none", "AuthorizeError") EXCEPT !.flow = "rejected"]
               /\ file' = file
          ELSE /\ ~HasToken(r.credentials) => email = NULL
               /\ Save(StoreSaveAccountCall(file, name, r.credentials, email, "oauth"),
                       ok,
                       [Call("refreshToken", name, NULL, r.credentials, email,
                             "void", "") EXCEPT !.flow = "resolved"])
  /\ UNCHANGED <<writes, call, proc, now, authVars, cryptoVars, diskVars,
                 tokenVars, setupVars>>

NextStore ==
  \/ \E n \in StoreNames, c \in StoreBlobs \cup {Malformed, Unavailable},
        e \in Emails \cup {NULL}, ok \in BOOLEAN : SaveAccountCall(n, c, e, ok)
  \/ \E n \in StoreNames, k \in AdminKeys, probeOk, ok \in BOOLEAN :
        SaveAdminAccountCall(n, k, probeOk, ok)
  \/ \E n \in StoreNames, ok \in BOOLEAN : SwitchAccountCall(n, ok)
  \/ \E n \in StoreNames, ok \in BOOLEAN : DeleteAccountCall(n, ok)
  \/ \E o, n \in StoreNames, follows, ok \in BOOLEAN : RenameAccountCall(o, n, follows, ok)
  \/ \E n \in StoreNames, a \in AuthorizeAnswers, e \in Emails \cup {NULL},
        ok \in BOOLEAN : RefreshAccountCall(n, a, e, ok)

SpecStore == StoreInit /\ [][NextStore]_vars

\* Three names, so that an entry can be renamed while another one is stored.
RenameNames == StoreNames \cup {"Personal"}

\* Saves, deletions and renames over three names, with two blobs.
NextRename ==
  \/ \E n \in RenameNames,
        c \in {Credentials("at1", "rt1", NoExpiry), Malformed}, ok \in BOOLEAN :
        SaveAccountCall(n, c, NULL, ok)
  \/ \E n \in RenameNames : SwitchAccountCall(n, TRUE)
  \/ \E n \in RenameNames : DeleteAccountCall(n, TRUE)
  \/ \E o, n \in RenameNames, follows, ok \in BOOLEAN :
        RenameAccountCall(o, n, follows, ok)

SpecRename == StoreInit /\ [][NextRename]_vars

\* ====================================================== claims, SpecStore
\* The last call was op and it overwrote the file.
Wrote(op) == last'.op = op /\ last'.wrote

\* Every entry of d other than the one at index is the same in e.
OthersKept(d, e, index) ==
  /\ Len(e.accounts) = Len(d.accounts)
  /\ \A i \in 1..Len(d.accounts) : i # index => e.accounts[i] = d.accounts[i]

\* C16: after any sequence of saveAccount, saveAdminAccount, deleteAccount and
\* renameAccount calls no two stored accounts have the same name (compared
\* case-sensitively); a save with an existing name replaces that entry in place,
\* and a rename whose target name is in use fails without changing the store.
C16_NamesUnique ==
  /\ [](\A i, j \in 1..Len(file.accounts) :
          file.accounts[i].name = file.accounts[j].name => i = j)
  /\ [][(Wrote("saveAccount") \/ Wrote("saveAdminAccount"))
          /\ last'.name \in Stored(file) =>
            /\ FindIndex(file'.accounts, last'.name) =
                 FindIndex(file.accounts, last'.name)
            /\ OthersKept(file, file', FindIndex(file.accounts, last'.name))]_vars
  /\ [][last' # last /\ last'.op = "renameAccount"
          /\ last'.newName \in Stored(file) =>
            /\ last'.error # ""
            /\ ~last'.wrote
            /\ file' = file]_vars

\* "Work" and "work" are both stored, and renaming one to the other has failed.
C16_Witness ==
  /\ {"Work", "work"} \subseteq Stored(file)
  /\ last.op = "renameAccount" /\ last.name = "work" /\ last.newName = "Work"
  /\ last.error = "NameInUse"

\* C18: saving a name that is already stored upserts: afterwards there is
\* exactly one entry of that name, it holds the blob just saved and stands at
\* the position the entry had before; every other entry and activeAccountName
\* are unchanged.
C18_SaveTwiceUpserts ==
  [][Wrote("saveAccount") /\ last'.name \in Stored(file) =>
       LET index == FindIndex(file.accounts, last'.name) IN
       /\ Cardinality({i \in 1..Len(file'.accounts) :
                         file'.accounts[i].name = last'.name}) = 1
       /\ file'.accounts[index].name = last'.name
       /\ file'.accounts[index].credentials = last'.credentials
       /\ OthersKept(file, file', index)
       /\ file'.activeAccountName = file.activeAccountName]_vars

\* The first of two entries was saved again with another blob while the second
\* one is the active account.
C18_Witness ==
  /\ last.op = "saveAccount" /\ last.wrote
  /\ Len(file.accounts) = 2
  /\ file.accounts[1].name = last.name
  /\ file.accounts[1].credentials = Credentials("", "rt3", NoExpiry)
  /\ file.activeAccountName = file.accounts[2].name

\* C19: saveAccount on a stored name preserves the metadata that is not
\* supplied again: a save that resolves no email keeps the email stored
\* earlier, and a save that supplies an email stores that email.
C19_EmailPreserved ==
  [][Wrote("saveAccount") =>
       LET before == FindIndex(file.accounts, last'.name)
           after == FindIndex(file'.accounts, last'.name)
       IN IF last'.email # NULL
          THEN file'.accounts[after].email = last'.email
          ELSE before > 0 =>
                 file'.accounts[after].email = file.accounts[before].email]_vars

\* C20: deleteAccount with a name that is not stored returns false from the
\* store and changes nothing: the accounts, their order and activeAccountName
\* stay as they were and the file is not written; the client reports
\* AccountNotFoundError.
C20_DeleteUnknownIsNoOp ==
  [][last'.op = "deleteAccount" /\ last'.name \notin Stored(file) =>
       /\ file' = file
       /\ last'.returned = "false"
       /\ ~last'.wrote
       /\ last'.error = "AccountNotFoundError"]_vars

\* An unknown name was refused while an account is stored and active.
C20_Witness ==
  /\ last.op = "deleteAccount" /\ last.returned = "false"
  /\ last.error = "AccountNotFoundError"
  /\ last.name = "work"
  /\ Stored(file) = {"Work"}
  /\ file.activeAccountName = "Work"

\* C21: deleteAccount on a stored name returns true and removes exactly that
\* entry: the entries before it stay, the entries after it move up by one in
\* their order; activeAccountName becomes null when it named the removed
\* account and is unchanged otherwise.
C21_DeleteRemovesOne ==
  [][Wrote("deleteAccount") /\ last'.name \in Stored(file) =>
       LET index == FindIndex(file.accounts, last'.name) IN
       /\ last'.returned = "true" /\ last'.error = ""
       /\ Len(file'.accounts) = Len(file.accounts) - 1
       /\ last'.name \notin Stored(file')
       /\ \A i \in 1..Len(file'.accounts) :
            file'.accounts[i] = file.accounts[IF i < index THEN i ELSE i + 1]
       /\ file'.activeAccountName =
            IF file.activeAccountName = last'.name THEN NULL
            ELSE file.activeAccountName]_vars

\* The first of two accounts was deleted; the other one is left, still active.
C21_Witness ==
  /\ last.op = "deleteAccount" /\ last.wrote /\ last.returned = "true"
  /\ last.name = "Work"
  /\ Len(file.accounts) = 1
  /\ file.accounts[1].name = "work"
  /\ file.activeAccountName = "work"

C30_ProbeBeforePersist ==
  [][last' # last /\ last'.op = "saveAdminAccount" =>
       LET key == last'.credentials.adminApiKey IN
       /\ ~HasAdminPrefix(key) =>
            /\ last'.probe = "none"
            /\ last'.error # "" /\ ~last'.wrote
            /\ file' = file
       /\ last'.probe = "failed" =>
            /\ last'.error # "" /\ ~last'.wrote
            /\ file' = file
       /\ last'.wrote => HasAdminPrefix(key) /\ last'.probe = "ok"
       /\ file' # file => last'.wrote]_vars

\* The probe of a key with the admin prefix failed while an account of that
\* name is stored: its OAuth blob is still there.
C30_Witness ==
  /\ last.op = "saveAdminAccount" /\ last.probe = "failed"
  /\ last.error = "ProbeError"
  /\ last.name \in Stored(file)
  /\ file.accounts[FindIndex(file.accounts, last.name)].credentials
       = Credentials("at1", "rt1", NoExpiry)

\* The entry was stored by saveAdminAccount: its credentials are { adminApiKey }.
SavedAsAdmin(account) ==
  account.accountType = "admin" \/ "adminApiKey" \in DOMAIN account.credentials

\* C31: the client's refreshToken(name) rejects with AccountNotFoundError when
\* name is not stored and with "Cannot refresh token for an admin account" when
\* the account is an admin account, in both cases without starting the
\* authorization flow and without changing the store; for an OAuth account it
\* runs the authorization flow and upserts the result under the same name,
\* leaving the number of accounts unchanged.
C31_RefreshTokenGuards ==
  [][last'.op = "refreshToken" =>
       LET index == FindIndex(file.accounts, last'.name) IN
       IF index = 0
       THEN /\ last'.error = "AccountNotFoundError"
            /\ last'.flow = "none" /\ file' = file
       ELSE IF SavedAsAdmin(file.accounts[index])
       THEN /\ last'.error = "Cannot refresh token for an admin account"
            /\ last'.flow = "none" /\ file' = file
       ELSE /\ last'.flow # "none"
            /\ Len(file'.accounts) = Len(file.accounts)
            /\ file'.accounts[index].name = last'.name
            /\ last'.wrote =>
                 file'.accounts[index].credentials = last'.credentials]_vars

\* C32: the client's refreshToken(name) requires the long-lived token: when
\* the creation of the long-lived token fails during the re-authorization the
\* call rejects and the stored credential stays as it was, so a refreshToken
\* that returns normally, and every write it makes, carries the long-lived
\* token and never the short-lived one of the exchange.
C32_RefreshRequiresLongLived ==
  [][last'.op = "refreshToken" =>
       /\ last'.error = "" =>
            last'.credentials.accessToken = CreateApiKeyResponse.key
       /\ file' # file =>
            LET index == FindIndex(file'.accounts, last'.name) IN
            file'.accounts[index].credentials.accessToken
              = CreateApiKeyResponse.key]_vars

(***************************************************************************)
(* Part 4.  AccountStore on disk (src/storage/index.ts): load() and the     *)
(* read-modify-write of saveAccount, for two callers whose calls may        *)
(* overlap.  Each await on the file system is a step of its own; the        *)
(* environment damages, removes or protects the file and its directory.     *)
(***************************************************************************)
\* Account names the overlapping callers save.
DiskNames == {"Work", "Personal"}

\* The blob the callers save.
DiskBlob == Credentials("at1", "rt1", NoExpiry)

\* encrypt(JSON.stringify(data)): text that decrypts under this machine's key
\* to the JSON text of data.
Sealed(data) == [kind |-> "sealed", json |-> TRUE, data |-> data]

\* File texts that did not come from save(): base64 whose ciphertext bytes were
\* changed, base64 whose tag bytes were changed, text that is no envelope at
\* all, and an envelope of text that is not JSON.
Foreign ==
  {[kind |-> k, json |-> FALSE, data |-> EMPTY] :
     k \in {"corrupt", "badtag", "garbage", "sealed"}}

\* Files the environment can leave at the store's path.
Damaged ==
  {[state |-> "file", text |-> x, blocked |-> FALSE] : x \in Foreign}
    \cup {[state |-> "denied", text |-> NoText, blocked |-> FALSE],
          [state |-> "missing", text |-> NoText, blocked |-> TRUE],
          Missing}

\* await readFile(this.filePath, 'utf8'): the text, or an error with its code
ReadFile(d) ==
  IF d.state = "missing" THEN [threw |-> TRUE, code |-> "ENOENT", text |-> NoText]
  ELSE IF d.state = "denied" THEN [threw |-> TRUE, code |-> "EACCES", text |-> NoText]
  ELSE [threw |-> FALSE, code |-> NULL, text |-> d.text]

\* await decrypt(raw.trim()) followed by JSON.parse(decrypted): only an envelope
\* made under this key decrypts, only JSON text parses
DecryptAndParse(text) ==
  IF text.kind # "sealed" THEN [threw |-> TRUE, code |-> "ERR_CRYPTO", data |-> EMPTY]
  ELSE IF ~text.json THEN [threw |-> TRUE, code |-> NULL, data |-> EMPTY]
  ELSE [threw |-> FALSE, code |-> NULL, data |-> text.data]

\* The try block of load(): the first error thrown inside it, or the data
TryLoad(d) ==
  LET raw == ReadFile(d) IN
  IF raw.threw THEN [threw |-> TRUE, code |-> raw.code, data |-> EMPTY]
  ELSE DecryptAndParse(raw.text)

\* load() that returns the empty document on every error
Load_absorbsAll(d) ==
  LET r == TryLoad(d) IN
  IF r.threw THEN [error |-> "", data |-> EMPTY] ELSE [error |-> "", data |-> r.data]

\* load(): ENOENT gives structuredClone(EMPTY), any other error StorageError
Load(d) ==
  LET r == TryLoad(d) IN
  IF ~r.threw THEN [error |-> "", data |-> r.data]
  ELSE IF r.code = "ENOENT" THEN [error |-> "", data |-> EMPTY]
  ELSE [error |-> "StorageError", data |-> EMPTY]

\* A caller starts store.load() or store.saveAccount(name, credentials).
StartTask(t, op, name) ==
  /\ task[t].pc \in {"idle", "returned", "threw"}
  /\ task' = [task EXCEPT ![t] =
       [IdleTask EXCEPT !.pc = "loading", !.op = op, !.name = name,
                        !.credentials = IF op = "load" THEN NoBlob ELSE DiskBlob]]
  /\ UNCHANGED <<disk, cryptoVars, last, tokenVars, setupVars, now,
               authVars, fetchVars>>

\* The caller's load() completes: load itself returns or throws, saveAccount
\* goes on to change the loaded document in memory and to save it.
LoadStep(t) ==
  /\ task[t].pc = "loading"
  /\ LET r == Load(disk) IN
     task' = [task EXCEPT ![t].data = r.data, ![t].error = r.error,
                          ![t].pc = IF r.error # "" THEN "threw"
                                    ELSE IF task[t].op = "load" THEN "returned"
                                    ELSE "saving"]
  /\ UNCHANGED <<disk, cryptoVars, last, tokenVars, setupVars, now,
               authVars, fetchVars>>

\* saveAccount whose save() writes its change into the file as it is now
SaveStep_mergesIntoFile(t, ok) ==
  /\ task[t].pc = "saving"
  /\ disk.blocked => ~ok
  /\ IF ok
     THEN /\ disk' = [state |-> "file", blocked |-> FALSE,
                      text |-> Sealed(StoreSaveAccount(Load(disk).data,
                                        task[t].name, task[t].credentials))]
          /\ task' = [task EXCEPT ![t].pc = "returned"]
     ELSE /\ disk' = disk
          /\ task' = [task EXCEPT ![t].pc = "threw", ![t].error = "StorageError"]
  /\ UNCHANGED <<cryptoVars, last, tokenVars, setupVars, now,
               authVars, fetchVars>>

\* The caller's save(data) completes: mkdir, encrypt and writeFile overwrite
\* the file with the document the caller loaded and changed, or one of them
\* fails and StorageError is thrown.
SaveStep(t, ok) ==
  /\ task[t].pc = "saving"
  /\ disk.blocked => ~ok
  /\ IF ok
     THEN /\ disk' = [state |-> "file", blocked |-> FALSE,
                      text |-> Sealed(StoreSaveAccount(task[t].data,
                                        task[t].name, task[t].credentials))]
          /\ task' = [task EXCEPT ![t].pc = "returned"]
     ELSE /\ disk' = disk
          /\ task' = [task EXCEPT ![t].pc = "threw", ![t].error = "StorageError"]
  /\ UNCHANGED <<cryptoVars, last, tokenVars, setupVars, now,
               authVars, fetchVars>>

\* Something outside the store replaces, removes or protects the file.
Damage(d) ==
  /\ disk' = d
  /\ UNCHANGED <<task, cryptoVars, last, tokenVars, setupVars, now,
               authVars, fetchVars>>

DiskInit ==
  /\ now = 0
  /\ AuthIdle
  /\ FetchIdle
  /\ last = NoCall
  /\ BoxIdle

NextDisk ==
  \/ \E t \in Tasks, op \in {"load", "saveAccount"}, n \in DiskNames :
        StartTask(t, op, IF op = "load" THEN NULL ELSE n)
  \/ \E t \in Tasks : LoadStep(t)
  \/ \E t \in Tasks, ok \in BOOLEAN : SaveStep(t, ok)
  \/ \E d \in Damaged : Damage(d)

SpecDisk == DiskInit /\ [][NextDisk]_vars

\* ======================================================= claims, SpecDisk

\* The file holds an envelope made under this key whose text is JSON.
Loadable(d) == d.state = "file" /\ d.text.kind = "sealed" /\ d.text.json

NextRace ==
  \/ \E t \in Tasks, n \in DiskNames : StartTask(t, "saveAccount", n)
  \/ \E t \in Tasks : LoadStep(t)
  \/ \E t \in Tasks : SaveStep(t, TRUE)

SpecRace == DiskInit /\ [][NextRace]_vars

\* The accounts of document d.
Entries(d) == {d.accounts[i] : i \in 1..Len(d.accounts)}

\* C24: the store takes no lock.  A saveAccount call overwrites the file with
\* the document it loaded, changed in memory: whatever other callers wrote
\* between its load and its write is gone (last writer wins on the whole
\* file).  The interleaving in which two saves of different names both return
\* and only the later writer's account is in the file is reachable
\* (C24_Witness).
C24_LastWriterWins ==
  [][\A t \in Tasks :
       task[t].pc = "saving" /\ task'[t].pc = "returned" =>
         LET loaded == task[t].data
             written == disk'.text.data
         IN /\ Loadable(disk')
            /\ Stored(written) = Stored(loaded) \cup {task[t].name}
            /\ \A a \in Entries(written) :
                 a.name # task[t].name => a \in Entries(loaded)
            /\ written.activeAccountName = loaded.activeAccountName]_vars

\* Both callers loaded the empty store, both saves returned, the names differ,
\* and the file holds one account only.
C24_Witness ==
  /\ \A t \in Tasks : /\ task[t].op = "saveAccount" /\ task[t].pc = "returned"
                      /\ task[t].data = EMPTY
  /\ task[1].name # task[2].name
  /\ Loadable(disk)
  /\ Len(disk.text.data.accounts) = 1

(***************************************************************************)
(* Part 5.  encrypt and decrypt (src/storage/crypto.ts).  A JavaScript      *)
(* string is a sequence of UTF-16 code units and a Buffer a sequence of     *)
(* bytes.  AES-256-GCM is symbolic: a ciphertext byte names the key, the    *)
(* IV, the position and the plaintext byte it hides; a tag byte names the   *)
(* key, the IV and the ciphertext it authenticates.  No byte can be made    *)
(* without the key except by copying one, and neither a tag nor a random    *)
(* IV is ever hit by chance.                                                *)
(***************************************************************************)
\* const iv = randomBytes(12)
IvLength == 12

\* combined.subarray(12, 28), combined.subarray(28)
TagEnd == 28

\* Tag lengths decipher.setAuthTag accepts for GCM when createDecipheriv was
\* given no authTagLength.
TagLengths == {4, 8, 12, 13, 14, 15, 16}

\* deriveKey() on this machine, and on another one.
MachineKey == "machine"
OtherKey == "other"

IsHigh(c) == c >= 55296 /\ c < 56320  \* 0xD800..0xDBFF
IsLow(c) == c >= 56320 /\ c < 57344   \* 0xDC00..0xDFFF

\* The UTF-8 bytes of code point cp.
Utf8Bytes(cp) ==
  IF cp < 128 THEN <<cp>>
  ELSE IF cp < 2048 THEN <<192 + (cp \div 64), 128 + (cp % 64)>>
  ELSE IF cp < 65536
  THEN <<224 + (cp \div 4096), 128 + ((cp \div 64) % 64), 128 + (cp % 64)>>
  ELSE <<240 + (cp \div 262144), 128 + ((cp \div 4096) % 64),
         128 + ((cp \div 64) % 64), 128 + (cp % 64)>>

RECURSIVE Utf8Encode(_)
\* cipher.update(plaintext, 'utf8'): a surrogate pair is one code point, an
\* unpaired surrogate is written as U+FFFD.
Utf8Encode(s) ==
  IF s = <<>> THEN <<>>
  ELSE LET c == Head(s) IN
       IF IsHigh(c) /\ Len(s) >= 2 /\ IsLow(s[2])
       THEN Utf8Bytes(65536 + (c - 55296) * 1024 + (s[2] - 56320))
              \o Utf8Encode(Tail(Tail(s)))
       ELSE IF IsHigh(c) \/ IsLow(c)
       THEN Utf8Bytes(65533) \o Utf8Encode(Tail(s))
       ELSE Utf8Bytes(c) \o Utf8Encode(Tail(s))

\* b is a continuation byte 10xxxxxx.
IsCont(b) == b >= 128 /\ b < 192

\* The code units of code point cp.
CodeUnits(cp) ==
  IF cp < 65536 THEN <<cp>>
  ELSE <<55296 + ((cp - 65536) \div 1024), 56320 + ((cp - 65536) % 1024)>>

\* decrypted.toString('latin1'): one code unit for each byte
Utf8Decode_latin1(b) == b

RECURSIVE Utf8Decode(_)
\* decrypted.toString('utf8'): a byte that starts no well-formed sequence
\* becomes U+FFFD.
Utf8Decode(b) ==
  IF b = <<>> THEN <<>>
  ELSE LET x == Head(b)
           n == IF x < 128 THEN 1
                ELSE IF x >= 194 /\ x < 224 THEN 2
                ELSE IF x >= 224 /\ x < 240 THEN 3
                ELSE IF x >= 240 /\ x < 245 THEN 4
                ELSE 0
           ok == /\ n > 0 /\ Len(b) >= n
                 /\ \A i \in 2..n : IsCont(b[i])
           cp == IF n = 1 THEN x
                 ELSE IF n = 2 THEN (x - 192) * 64 + (b[2] - 128)
                 ELSE IF n = 3
                 THEN (x - 224) * 4096 + (b[2] - 128) * 64 + (b[3] - 128)
                 ELSE (x - 240) * 262144 + (b[2] - 128) * 4096
                        + (b[3] - 128) * 64 + (b[4] - 128)
       IN IF ok
          THEN CodeUnits(cp) \o Utf8Decode(SubSeq(b, n + 1, Len(b)))
          ELSE <<65533>> \o Utf8Decode(Tail(b))

\* ------------------------------------------------------------- the bytes
\* A byte of a Buffer that is not plain text: t is what made it.
Byte(t, k, n, i, v, m) == [t |-> t, k |-> k, n |-> n, i |-> i, v |-> v, m |-> m]

\* Byte i of the n-th value randomBytes(12) returned.
IvByte(n, i) == Byte("iv", "", n, i, 0, <<>>)

\* Byte i of the AES-CTR output for plaintext byte v under key k and the n-th
\* IV drawn.
CtByte(k, n, i, v) == Byte("ct", k, n, i, v, <<>>)

\* Byte i of the GCM tag of ciphertext m under key k and the n-th IV drawn.
TagByte(k, n, m, i) == Byte("tag", k, n, i, 0, m)

\* A byte that encrypt did not make.
JunkByte(i) == Byte("junk", "", 0, i, 0, <<>>)

\* Which draw of randomBytes(12) the bytes iv are: 0 when they are none, and
\* then no ciphertext or tag byte was ever made under them.
Drawn(iv) ==
  IF Len(iv) = IvLength /\ \A i \in 1..IvLength : iv[i] = IvByte(iv[1].n, i)
  THEN iv[1].n
  ELSE 0

\* randomBytes(12): the n-th draw repeats no earlier one.
RandomBytes(n) == [i \in 1..IvLength |-> IvByte(n, i)]

\* cipher.update(plaintext, 'utf8') and cipher.final()
Cipher(k, iv, bytes) ==
  [i \in 1..Len(bytes) |-> CtByte(k, Drawn(iv), i, bytes[i])]

\* cipher.getAuthTag(): 16 bytes
AuthTag(k, iv, encrypted) ==
  [i \in 1..(TagEnd - IvLength) |-> TagByte(k, Drawn(iv), encrypted, i)]

\* decipher.update(encrypted) and decipher.final() once the tag has verified:
\* a byte made under this key and IV at this position gives its plaintext
\* byte back, any other byte gives noise.
Decipher(k, iv, encrypted) ==
  [i \in 1..Len(encrypted) |->
     LET c == encrypted[i] IN
     IF c.t = "ct" /\ c.k = k /\ c.n = Drawn(iv) /\ c.i = i THEN c.v ELSE 255]

\* --------------------------------------------------------------- base64
\* A character of a base64 string: the digits that carry one byte, a padding
\* '=', white space, or a character outside the alphabet.
Digits(b) == [c |-> "b64", b |-> b]
Pad == [c |-> "=", b |-> JunkByte(0)]
Space == [c |-> "ws", b |-> JunkByte(0)]
Bang == [c |-> "!", b |-> JunkByte(0)]

\* combined.toString('base64'): the digits, padded to a multiple of 3 bytes
ToBase64(bytes) ==
  [i \in 1..Len(bytes) |-> Digits(bytes[i])]
    \o [i \in 1..((3 - (Len(bytes) % 3)) % 3) |-> Pad]

RECURSIVE FromBase64(_)
\* Buffer.from(ciphertext, 'base64'): characters outside the alphabet are
\* skipped, decoding ends at the first '='.
FromBase64(str) ==
  IF str = <<>> THEN <<>>
  ELSE LET ch == Head(str) IN
       IF ch.c = "=" THEN <<>>
       ELSE IF ch.c = "b64" THEN <<ch.b>> \o FromBase64(Tail(str))
       ELSE FromBase64(Tail(str))

\* combined.subarray(start, end): both ends clamped to the length
Subarray(buf, start, end) ==
  SubSeq(buf, (IF start > Len(buf) THEN Len(buf) ELSE start) + 1,
              IF end > Len(buf) THEN Len(buf) ELSE end)

\* ---------------------------------------------------- encrypt / decrypt
\* encrypt whose IV is the same 12 bytes at every call
encrypt_fixedIv(k, n, plaintext) ==
  LET iv == RandomBytes(1)
      encrypted == Cipher(k, iv, Utf8Encode(plaintext))
      authTag == AuthTag(k, iv, encrypted)
  IN ToBase64(iv \o authTag \o encrypted)

\* encrypt(plaintext) under key k, its randomBytes call being the n-th:
\* base64(iv + authTag + ciphertext)
encrypt(k, n, plaintext) ==
  LET iv == RandomBytes(n)
      encrypted == Cipher(k, iv, Utf8Encode(plaintext))
      authTag == AuthTag(k, iv, encrypted)
  IN ToBase64(iv \o authTag \o encrypted)

\* decrypt(ciphertext) under key k: createDecipheriv throws on an empty IV,
\* setAuthTag on a tag of a length GCM does not know, final() on a tag that does
\* not verify; a tag shorter than 16 bytes is compared with the first bytes of
\* the computed one.
decrypt(k, ciphertext) ==
  LET combined == FromBase64(ciphertext)
      iv == Subarray(combined, 0, IvLength)
      authTag == Subarray(combined, IvLength, TagEnd)
      encrypted == Subarray(combined, TagEnd, Len(combined))
  IN IF \/ iv = <<>>
        \/ Len(authTag) \notin TagLengths
        \/ authTag # SubSeq(AuthTag(k, iv, encrypted), 1, Len(authTag))
     THEN [threw |-> TRUE, plaintext |-> <<>>]
     ELSE [threw |-> FALSE, plaintext |-> Utf8Decode(Decipher(k, iv, encrypted))]

\* ------------------------------------------------------------ the calls
\* encrypt calls made before the model stops making new ones.
MaxSeals == 2

\* Strings handed to encrypt: "", "{}", a two-byte character followed by a
\* four-byte one, and a string that begins with an unpaired surrogate.
Plaintexts == {<<>>, <<123, 125>>, <<233, 55357, 56832>>, <<56832, 97>>}

\* 'not-valid-base64!!': sixteen digits, that is twelve bytes, and two
\* characters outside the alphabet
NotValidBase64 == ToBase64([i \in 1..12 |-> JunkByte(i)]) \o <<Bang, Bang>>

\* What can be made of envelope e without the key: e with white space or a
\* foreign character added, e cut short, and e with a byte replaced or
\* appended.
Reworked(e) ==
  LET b == FromBase64(e) IN
  {e \o <<Space>>, <<Space>> \o e,
   SubSeq(e, 1, 5) \o <<Bang>> \o SubSeq(e, 6, Len(e))}
    \cup {ToBase64(SubSeq(b, 1, n)) : n \in {12, 16, 27, Len(b) - 1}}
    \cup {ToBase64([b EXCEPT ![p] = JunkByte(p)]) : p \in {1, 13, Len(b)}}
    \cup {ToBase64(b \o <<JunkByte(1)>>)}

\* Envelope e with its IV, its tag or its ciphertext taken from envelope f.
Spliced(e, f) ==
  LET b == FromBase64(e)
      g == FromBase64(f)
  IN {ToBase64(Subarray(g, 0, IvLength) \o Subarray(b, IvLength, Len(b))),
      ToBase64(Subarray(b, 0, IvLength) \o Subarray(g, IvLength, TagEnd)
                 \o Subarray(b, TagEnd, Len(b))),
      ToBase64(Subarray(b, 0, TagEnd) \o Subarray(g, TagEnd, Len(g)))}

\* The strings decrypt is called with: the envelopes encrypt returned, what can
\* be made of them, envelopes made on another machine, and text that is no
\* envelope.
Inputs ==
  {sealed[i].envelope : i \in 1..Len(sealed)}
    \cup UNION {Reworked(sealed[i].envelope) : i \in 1..Len(sealed)}
    \cup UNION {Spliced(sealed[i].envelope, sealed[j].envelope) :
                  i, j \in 1..Len(sealed)}
    \cup {encrypt(OtherKey, i, sealed[i].plaintext) : i \in 1..Len(sealed)}
    \cup {NotValidBase64, <<>>}

\* await encrypt(plaintext)
Encrypt(plaintext) ==
  /\ drawn < MaxSeals
  /\ drawn' = drawn + 1
  /\ sealed' = Append(sealed, [plaintext |-> plaintext,
                               envelope |-> encrypt(MachineKey, drawn + 1, plaintext)])
  /\ UNCHANGED <<opened, diskVars, last, tokenVars, setupVars, now,
               authVars, fetchVars>>

\* await decrypt(ciphertext)
Decrypt(ciphertext) ==
  /\ LET r == decrypt(MachineKey, ciphertext) IN
     opened' = [called |-> TRUE, input |-> ciphertext, threw |-> r.threw,
                plaintext |-> r.plaintext]
  /\ UNCHANGED <<drawn, sealed, diskVars, last, tokenVars, setupVars, now,
               authVars, fetchVars>>

CryptoInit ==
  /\ now = 0
  /\ AuthIdle
  /\ FetchIdle
  /\ last = NoCall
  /\ BoxIdle

NextCrypto ==
  \/ \E p \in Plaintexts : Encrypt(p)
  \/ \E c \in Inputs : Decrypt(c)

SpecCrypto == CryptoInit /\ [][NextCrypto]_vars

\* ===================================================== claims, SpecCrypto
\* The envelopes encrypt has returned.
Envelopes == {sealed[i].envelope : i \in 1..Len(sealed)}

\* s has no unpaired surrogate.
RECURSIVE WellFormed(_)
WellFormed(s) ==
  IF s = <<>> THEN TRUE
  ELSE IF IsHigh(Head(s))
  THEN Len(s) >= 2 /\ IsLow(s[2]) /\ WellFormed(Tail(Tail(s)))
  ELSE ~IsLow(Head(s)) /\ WellFormed(Tail(s))

\* C25 as stated: for every plaintext p, decrypt(encrypt(p)) returns p.
C25_RoundTrip ==
  \A i \in 1..Len(sealed) :
    opened.called /\ opened.input = sealed[i].envelope =>
      ~opened.threw /\ opened.plaintext = sealed[i].plaintext

\* C25, amended: for every plaintext p that is a well-formed UTF-16 string (no
\* unpaired surrogate), decrypt(encrypt(p)) returns p; for any other p it
\* returns p with each unpaired surrogate replaced by U+FFFD.
C25_RoundTripWellFormed ==
  \A i \in 1..Len(sealed) :
    opened.called /\ opened.input = sealed[i].envelope =>
      /\ ~opened.threw
      /\ WellFormed(sealed[i].plaintext) => opened.plaintext = sealed[i].plaintext
      /\ opened.plaintext =
           [j \in 1..Len(sealed[i].plaintext) |->
              LET s == sealed[i].plaintext
                  paired == \/ IsHigh(s[j]) /\ j < Len(s) /\ IsLow(s[IF j < Len(s) THEN j + 1 ELSE j])
                            \/ IsLow(s[j]) /\ j > 1 /\ IsHigh(s[IF j > 1 THEN j - 1 ELSE j])
              IN IF (IsHigh(s[j]) \/ IsLow(s[j])) /\ ~paired THEN 65533 ELSE s[j]]

\* The string with the two-byte and the four-byte character was encrypted and
\* decrypted back.
C25_Witness ==
  /\ opened.called /\ ~opened.threw
  /\ opened.plaintext = <<233, 55357, 56832>>
  /\ \E i \in 1..Len(sealed) :
       /\ opened.input = sealed[i].envelope
       /\ sealed[i].plaintext = <<233, 55357, 56832>>

\* C26: decrypting a non-envelope or a tampered envelope always fails: for any
\* input that encrypt did not return under the same key, decrypt throws and
\* returns no plaintext.  Inputs are compared by the bytes they decode to, so
\* that white space around an envelope does not count as tampering.
C26_TamperedAlwaysFails ==
  opened.called
    /\ FromBase64(opened.input) \notin {FromBase64(e) : e \in Envelopes}
    => opened.threw

\* C27: each encrypt call uses a nonce of its own, never used by another call
\* under the key, so that no two calls return the same envelope, not even for
\* the same input.
C27_NonceFresh ==
  \A i, j \in 1..Len(sealed) :
    i # j =>
      /\ Subarray(FromBase64(sealed[i].envelope), 0, IvLength)
           # Subarray(FromBase64(sealed[j].envelope), 0, IvLength)
      /\ sealed[i].envelope # sealed[j].envelope

\* The same input was encrypted twice.
C27_Witness ==
  /\ Len(sealed) = 2
  /\ sealed[1].plaintext = <<123, 125>>
  /\ sealed[2].plaintext = <<123, 125>>

(***************************************************************************)
(* Part 6.  validateToken and refreshToken (src/tokens/index.ts) called on  *)
(* their own, on blobs whose expiry lies around Date.now().                 *)
(***************************************************************************)
\* expiresAt values of the blobs: none, text that is no date, and dates from
\* more than a minute ago to more than a minute ahead.
TokenExpiries ==
  {NoExpiry, BadDate} \cup
  {IsoDate(FetchNow + d) :
     d \in {0 - MsPerMinute - 1, 0 - MsPerMinute, 0 - 1, 0, 1, MsPerMinute - 1,
            MsPerMinute, 2 * MsPerMinute + 1}}

TokenBlobs ==
  {Credentials(a, r, e) : a \in {"at0", ""}, r \in {"rt0", ""}, e \in TokenExpiries}
    \cup {Malformed}

\* Answers of the token endpoint: those of RefreshAnswers and a 2xx response
\* whose body response.json() cannot parse.
TokenAnswers == RefreshAnswers \cup {"bad_body"}

\* validateToken(credentialsJson)
ValidateTokenCall(blob) ==
  /\ checked' = [NoCheck EXCEPT !.fn = "validateToken", !.blob = blob,
                                !.validation = validateToken(blob, now)]
  /\ UNCHANGED <<last, cryptoVars, diskVars, setupVars, now, authVars,
                 fetchVars>>

\* await refreshToken(credentialsJson): a is what the token endpoint answered,
\* "none" when no request was made
RefreshTokenCall(blob, a) ==
  /\ LET rq == RefreshRequest(blob) IN
     /\ a = "none" <=> ~rq.net
     /\ checked' = [NoCheck EXCEPT !.fn = "refreshToken", !.blob = blob,
                                   !.net = rq.net, !.answer = a,
                                   !.refresh = RefreshResult(rq, a, now)]
  /\ UNCHANGED <<last, cryptoVars, diskVars, setupVars, now, authVars,
                 fetchVars>>

TokensInit ==
  /\ now = FetchNow
  /\ AuthIdle
  /\ FetchIdle
  /\ last = NoCall
  /\ BoxIdle

NextTokens ==
  \/ \E b \in TokenBlobs : ValidateTokenCall(b)
  \/ \E b \in TokenBlobs, a \in TokenAnswers \cup {"none"} : RefreshTokenCall(b, a)

SpecTokens == TokensInit /\ [][NextTokens]_vars

\* ===================================================== claims, SpecTokens
\* C28 as stated: a blob whose expiresAt is in the past is reported expired and
\* not valid; one whose expiresAt is in the future is reported valid with
\* minutesUntilExpiry > 0; malformed JSON or a missing expiry gives
\* isValid = false, isExpired = false, expiresAt = null and
\* minutesUntilExpiry = null.
C28_ValidateToken ==
  checked.fn = "validateToken" =>
    LET b == checked.blob
        v == checked.validation
    IN /\ b.json /\ b.expiresAt.tag = "date" /\ b.expiresAt.ms < now =>
            v.isExpired /\ ~v.isValid
       /\ b.json /\ b.expiresAt.tag = "date" /\ b.expiresAt.ms > now =>
            v.isValid /\ v.minutesUntilExpiry.tag = "num"
              /\ v.minutesUntilExpiry.n > 0
       /\ ~b.json \/ b.expiresAt.tag = "absent" => v = InvalidToken

\* C28, amended: a blob whose expiresAt is in the past, or is now, is reported
\* expired and not valid; one whose expiresAt is in the future is reported
\* valid and not expired, with minutesUntilExpiry the whole minutes left: 0 in
\* the last minute, positive before; malformed JSON or a missing expiry gives
\* isValid = false, isExpired = false, expiresAt = null and
\* minutesUntilExpiry = null.
C28_ValidateTokenWholeMinutes ==
  checked.fn = "validateToken" =>
    LET b == checked.blob
        v == checked.validation
    IN /\ b.json /\ b.expiresAt.tag = "date" /\ b.expiresAt.ms <= now =>
            v.isExpired /\ ~v.isValid
       /\ b.json /\ b.expiresAt.tag = "date" /\ b.expiresAt.ms > now =>
            /\ v.isValid /\ ~v.isExpired
            /\ v.expiresAt = b.expiresAt
            /\ v.minutesUntilExpiry.tag = "num"
            /\ v.minutesUntilExpiry.n >= 0
            /\ v.minutesUntilExpiry.n * MsPerMinute <= b.expiresAt.ms - now
            /\ b.expiresAt.ms - now < (v.minutesUntilExpiry.n + 1) * MsPerMinute
       /\ ~b.json \/ b.expiresAt.tag = "absent" => v = InvalidToken

\* A blob that expires within the minute was validated.
C28_Witness ==
  /\ checked.fn = "validateToken"
  /\ checked.blob.json
  /\ checked.blob.expiresAt = IsoDate(now + MsPerMinute - 1)
  /\ checked.validation.isValid
  /\ checked.validation.minutesUntilExpiry = Num(0)

\* C29: the token-lifecycle refreshToken never throws, it always resolves with
\* a RefreshResult.  A blob without a refresh token, or with an empty one,
\* gives { success: false, error: 'No refresh token' } and no network call; a
\* response that is not 2xx, or a network exception, gives success false with
\* the detail as error; success is given only for a 2xx response, with a blob
\* that holds the access and refresh tokens of the response and the expiry
\* now + expires_in.
C29_RefreshNeverThrows ==
  checked.fn = "refreshToken" =>
    LET b == checked.blob
        r == checked.refresh
    IN /\ b.json /\ b.refreshToken = "" =>
            /\ ~checked.net
            /\ ~r.success /\ r.error = "No refresh token"
       /\ checked.net /\ checked.answer = "http_error" =>
            ~r.success /\ r.error = "HTTP 400"
       /\ checked.net /\ checked.answer = "network_error" =>
            ~r.success /\ r.error = "fetch failed"
       /\ ~r.success => r.error # "" /\ r.newCredentials = NoBlob
       /\ r.success <=> checked.net /\ checked.answer = "ok"
       /\ r.success =>
            LET d == RefreshResponse(b.refreshToken) IN
            /\ r.error = ""
            /\ r.newCredentials.json
            /\ r.newCredentials.accessToken = d.access_token
            /\ r.newCredentials.refreshToken = d.refresh_token
            /\ r.newCredentials.expiresAt = IsoDate(now + d.expires_in * MsPerSecond)

\* A blob with a refresh token and a past expiry was refreshed.
C29_Witness ==
  /\ checked.fn = "refreshToken"
  /\ checked.blob.refreshToken = "rt0"
  /\ checked.blob.expiresAt = IsoDate(now - 1)
  /\ checked.refresh.success
  /\ checked.refresh.newCredentials.accessToken # ""

\* C38: validateToken reports isValid = true only when the blob's expiresAt
\* denotes an instant strictly later than now; an expiresAt equal to now counts
\* as expired, an expiresAt that is present but is no parseable date is not
\* reported as valid, and whenever a parseable expiresAt is present isValid is
\* the negation of isExpired.
C38_ValidOnlyBeforeExpiry ==
  checked.fn = "validateToken" =>
    LET b == checked.blob
        v == checked.validation
    IN /\ v.isValid =>
            b.json /\ b.expiresAt.tag = "date" /\ b.expiresAt.ms > now
       /\ b.json /\ b.expiresAt = IsoDate(now) => v.isExpired /\ ~v.isValid
       /\ b.json /\ b.expiresAt.tag = "date" => (v.isValid <=> ~v.isExpired)

(***************************************************************************)
(* Part 7.  authorize() through `claude setup-token`: the child process,    *)
(* its stdout, its 'error' and 'close' events and the deadline timer.  The  *)
(* environment writes to the child's stdout, lets the clock advance, and    *)
(* decides how the child ends.                                              *)
(***************************************************************************)
\* ONE_YEAR_MS, the lifetime given to the token, in milliseconds of the model's
\* clock: the year is shortened to ten minutes, so that an issue date and the
\* expiry it leads to both lie within the dates the model works with.
OneYearMs == 600000

\* Credentials that carry a refresh token
SetupCredentials_withRefreshToken(token, t) ==
  Credentials(token, "rt0", IsoDate(t + OneYearMs))

\* { claudeAiOauth: { accessToken: match[1], refreshToken: '', expiresAt:
\* new Date(Date.now() + ONE_YEAR_MS).toISOString() } }
SetupCredentials(token, t) == Credentials(token, "", IsoDate(t + OneYearMs))

\* What the child prints, in pieces: the token prefix, a character that is not
\* white space, and white space.
TokenPrefix == "sk-ant-"
Chunks == {TokenPrefix, "x", " "}

\* Number of pieces the child prints during one call.
MaxChunks == 3

\* Exit codes the 'close' event carries: 0, 1, and null for a child ended by a
\* signal.
ExitCodes == {"0", "1", NULL}

\* stdout.match(/(sk-ant-\S+)/): the first prefix that is followed by a
\* character other than white space, with the run of such characters after it;
\* <<>> when there is none.
Match(stdout) ==
  LET starts == {i \in 1..(Len(stdout) - 1) :
                   stdout[i] = TokenPrefix /\ stdout[i + 1] # " "}
  IN IF starts = {} THEN <<>>
     ELSE LET i == CHOOSE k \in starts : \A m \in starts : k <= m
              ends == {k \in i..Len(stdout) : \A m \in i..k : stdout[m] # " "}
              j == CHOOSE k \in ends : \A m \in ends : m <= k
          IN SubSeq(stdout, i, j)

\* settle without its guard: fn is called whatever `settled` says
Settle_noGuard(s, kind, value) ==
  [s EXCEPT !.settled = TRUE,
            !.timer = IF @ = "armed" THEN "cleared" ELSE @,
            !.outcome = IF @.kind = "pending"
                        THEN [kind |-> kind, value |-> value] ELSE @,
            !.settleCalls = @ + 1]

\* const settle = (fn, value) => { if (settled) return; settled = true;
\* clearTimeout(timer); fn(value); }
Settle(s, kind, value) ==
  IF s.settled THEN s
  ELSE [s EXCEPT !.settled = TRUE,
                 !.timer = IF @ = "armed" THEN "cleared" ELSE @,
                 !.outcome = IF @.kind = "pending"
                             THEN [kind |-> kind, value |-> value] ELSE @,
                 !.settleCalls = @ + 1]

\* child.stdout.on('data', chunk => { stdout += chunk.toString() })
StdoutData(c) ==
  /\ setup.child = "running"
  /\ Len(setup.stdout) < MaxChunks
  /\ setup' = [setup EXCEPT !.stdout = Append(@, c)]
  /\ UNCHANGED <<now, authVars, fetchVars, last, cryptoVars, diskVars, tokenVars>>

\* The setTimeout callback: child.kill(), then settle(reject, 'timed out')
SetupTimerFire ==
  /\ setup.timer = "armed"
  /\ now >= TimeoutTicks
  /\ setup' = Settle([setup EXCEPT !.timer = "fired", !.kills = @ + 1],
                     "rejected", <<"claude setup-token timed out">>)
  /\ UNCHANGED <<now, authVars, fetchVars, last, cryptoVars, diskVars, tokenVars>>

\* child.on('error', err => settle(reject, ...)): the child could not be
\* spawned or could not be killed
ChildError ==
  /\ setup.child = "running"
  /\ setup.errors = 0
  /\ setup' = Settle([setup EXCEPT !.errors = 1], "rejected",
                     <<"Failed to run claude setup-token: ", "spawn ENOENT">>)
  /\ UNCHANGED <<now, authVars, fetchVars, last, cryptoVars, diskVars, tokenVars>>

\* child.on('close', code => ...): a code other than 0 rejects, stdout without
\* a token rejects, else the credentials are resolved
ChildClose(code) ==
  /\ setup.child = "running"
  /\ LET s == [setup EXCEPT !.child = "closed"]
         match == Match(setup.stdout)
     IN setup' =
          IF code # "0"
          THEN Settle(s, "rejected", <<"claude setup-token exited with code ", code>>)
          ELSE IF match = <<>>
          THEN Settle(s, "rejected", <<"No token found in claude setup-token output">>)
          ELSE Settle(s, "resolved", SetupCredentials(match, now))
  /\ UNCHANGED <<now, authVars, fetchVars, last, cryptoVars, diskVars, tokenVars>>

SetupInit ==
  /\ now = 0
  /\ AuthIdle
  /\ FetchIdle
  /\ last = NoCall
  /\ BoxIdle

NextSetup ==
  \/ Tick
  \/ \E c \in Chunks : StdoutData(c)
  \/ SetupTimerFire
  \/ ChildError
  \/ \E code \in ExitCodes : ChildClose(code)

SpecSetup == SetupInit /\ [][NextSetup]_vars

\* ====================================================== claims, SpecSetup
\* C40: in the setup-token authorize the child's close event, its error event
\* and the deadline timer all pass through one settle guard: the operation is
\* settled by whichever occurs first, every later event leaves the outcome as
\* it is, the timer is cleared on settlement, and on timeout the child is
\* killed and the call rejects with "timed out".
C40_OneSettleGuard ==
  [][/\ setup.settled =>
          /\ setup'.settled
          /\ setup'.outcome = setup.outcome
          /\ setup'.settleCalls = setup.settleCalls
          /\ setup'.timer = setup.timer /\ setup'.kills = setup.kills
     /\ setup'.settled <=> setup'.outcome # Pending
     /\ ~setup.settled /\ setup'.settled =>
          /\ setup'.settleCalls = 1
          /\ setup'.timer # "armed"
     /\ setup.timer = "armed" /\ setup'.timer = "fired" =>
          /\ setup'.kills = setup.kills + 1
          /\ setup'.outcome =
               [kind |-> "rejected", value |-> <<"claude setup-token timed out">>]
     /\ setup'.kills > 0 => setup'.timer = "fired"]_vars

\* The deadline settled the call; the killed child then failed and closed.
C40_Witness ==
  /\ setup.timer = "fired" /\ setup.kills = 1
  /\ setup.errors = 1 /\ setup.child = "closed"
  /\ setup.settleCalls = 1
  /\ setup.outcome =
       [kind |-> "rejected", value |-> <<"claude setup-token timed out">>]

\* ======================================= claims, SpecFetch and setup-token
\* The blob is what the setup-token authorize resolves with, for some token and
\* some time of issue.
IssuedBySetupToken(blob) ==
  /\ blob.json /\ blob.accessToken # "" /\ blob.expiresAt.tag = "date"
  /\ blob = SetupCredentials(blob.accessToken, blob.expiresAt.ms - OneYearMs)

\* C39: a credential produced by the setup-token authorize carries an empty
\* refresh token; once it has expired, the per-account usage fetch returns the
\* error "Token expired -- refresh failed" without making any network call and
\* without changing the store.
C39_ExpiredSetupTokenFails ==
  \A n \in Names :
    LET blob == proc[n].credentialsJson IN
    proc[n].pc # "idle" /\ proc[n].accountType = "oauth"
      /\ IssuedBySetupToken(blob) /\ blob.expiresAt.ms <= FetchNow =>
      /\ blob.refreshToken = ""
      /\ proc[n].refreshSent = <<>> /\ proc[n].usageSent = <<>>
      /\ ~proc[n].net
      /\ writes[n] = 0
      /\ AccountOf(file, n).credentials = blob
      /\ proc[n].pc \in {"refreshing", "done"}
      /\ proc[n].pc = "done" =>
           proc[n].result = ErrorResult(n, "oauth", TokenExpiredRefreshFailed)

\* An expired setup-token credential was fetched and the call has returned.
C39_Witness ==
  \E n \in Names :
    /\ call = "returned"
    /\ proc[n].pc = "done" /\ proc[n].accountType = "oauth"
    /\ IssuedBySetupToken(proc[n].credentialsJson)
    /\ proc[n].credentialsJson.expiresAt.ms < FetchNow
    /\ proc[n].refreshCalls = 1
    /\ proc[n].result = ErrorResult(n, "oauth", TokenExpiredRefreshFailed)

====
